---- MODULE Spec2Model ----
(***************************************************************************)
(* A model of the permessage-deflate extension of soketto                  *)
(* (src/src/extension/deflate.rs) and of the Param type it negotiates with *)
(* (src/src/extension.rs).                                                 *)
(*                                                                         *)
(* Byte strings (Vec<u8>, &[u8]) are kept run-length encoded: a sequence   *)
(* of runs [b |-> byte, n |-> count], n >= 1, adjacent runs of different   *)
(* bytes.  All lengths and capacities are real byte counts, so a payload   *)
(* longer than DEFAULT_GROWTH is one short sequence.                       *)
(*                                                                         *)
(* The flate2/zlib engine is outside the repository.  It is modelled by   *)
(* what zlib 1.2.13 does behind flate2's compress_vec / decompress_vec:    *)
(* deflate with its stored, fixed and dynamic blocks, its match search at  *)
(* the levels 0 .. 9 and its pending output, and inflate with its states,  *)
(* both bit by bit, so that payloads are real deflate streams.             *)
(***************************************************************************)
EXTENDS Integers, Sequences, FiniteSets, TLC

VARIABLES
    ext,    \* ext[m]: the Deflate instance constructed with Deflate::new(m)
    wire,   \* wire[m]: frames encoded by ext[m], in flight to its peer
    last,   \* the last call: operation, instance, frames in and out, result
    env     \* the callers: calls made, handshake phase, incoming message

vars == <<ext, wire, last, env>>

(***************************** bounds **************************************)
MaxShort == 2       \* short payloads have 1 .. MaxShort bytes
MaxParams == 2      \* an instance receives at most MaxParams parameters
MaxOffer == 5       \* params() of a client grows to at most this many entries
MaxConfigure == 2   \* configure calls per instance
MaxWire == 1        \* frames in flight per direction
MaxFrames == 1      \* encode / decode calls on an instance by itself
MaxStream == 3      \* frames of a received sequence of frames
MaxSend == 2        \* messages sent between a negotiated pair
SmallSize == 16     \* a small size for set_max_buffer_size / set_grow_buffer_size
AmpleRoom == 8192   \* room for all the output of any stream of the model

(************************ constants of the source **************************)
DEFAULT_GROWTH == 4096
DEFAULT_DECOMPRESS_SIZE == 268435456
MinNonZeroCap == 8
\* zlib: the longest stored block, the pending buffer of memLevel 8
MAX_STORED == 65535
PendingBufSize == 65536

SERVER_NO_CONTEXT_TAKEOVER == "server_no_context_takeover"
SERVER_MAX_WINDOW_BITS == "server_max_window_bits"
CLIENT_NO_CONTEXT_TAKEOVER == "client_no_context_takeover"
CLIENT_MAX_WINDOW_BITS == "client_max_window_bits"

Mode == {"Client", "Server"}
Peer(m) == IF m = "Client" THEN "Server" ELSE "Client"

Max(a, b) == IF a >= b THEN a ELSE b

\* std::cmp::min replaced by its second argument
Min_Second(a, b) == b

Min(a, b) == IF a <= b THEN a ELSE b

\* a let binding: the value v is computed first and named in the body Op
With(v, Op(_)) == IF <<v>> # <<>> THEN Op(v) ELSE Op(v)

(************************* byte strings ************************************)
Run(b, n) == [b |-> b, n |-> n]

\* the bytes in the runs lo .. hi of x
RECURSIVE RunSum(_, _, _)
RunSum(x, lo, hi) ==
    IF lo > hi THEN 0
    ELSE IF lo = hi THEN x[lo].n
    ELSE RunSum(x, lo, (lo + hi) \div 2) + RunSum(x, (lo + hi) \div 2 + 1, hi)

BLen(x) == RunSum(x, 1, Len(x))

\* how many whole runs at the start of x have at most k bytes together,
\* and how many bytes these are; the answer lies in lo .. hi, and the first
\* lo runs have base bytes
RECURSIVE WholeRuns(_, _, _, _, _)
WholeRuns(x, k, lo, hi, base) ==
    IF lo = hi THEN [runs |-> lo, bytes |-> base]
    ELSE IF base + RunSum(x, lo + 1, (lo + hi + 1) \div 2) <= k
    THEN WholeRuns(x, k, (lo + hi + 1) \div 2, hi,
                   base + RunSum(x, lo + 1, (lo + hi + 1) \div 2))
    ELSE WholeRuns(x, k, lo, (lo + hi + 1) \div 2 - 1, base)

\* concatenation of two normalised byte strings
BCat(x, y) ==
    IF x = <<>> THEN y
    ELSE IF y = <<>> THEN x
    ELSE IF x[Len(x)].b = y[1].b
         THEN SubSeq(x, 1, Len(x) - 1)
              \o <<Run(y[1].b, x[Len(x)].n + y[1].n)>> \o Tail(y)
         ELSE x \o y

\* the first k bytes
BTake(x, k) ==
    With(WholeRuns(x, k, 0, Len(x), 0), LAMBDA w :
        IF w.runs = Len(x) THEN x
        ELSE SubSeq(x, 1, w.runs)
             \o (IF k > w.bytes THEN <<Run(x[w.runs + 1].b, k - w.bytes)>> ELSE <<>>))

\* all but the first k bytes
BDrop(x, k) ==
    With(WholeRuns(x, k, 0, Len(x), 0), LAMBDA w :
        IF w.runs = Len(x) THEN <<>>
        ELSE <<Run(x[w.runs + 1].b, x[w.runs + 1].n - (k - w.bytes))>>
             \o SubSeq(x, w.runs + 2, Len(x)))

\* the last k bytes (all of x when it is shorter)
BLast(x, k) == IF BLen(x) <= k THEN x ELSE BDrop(x, BLen(x) - k)

\* slice::ends_with
BEndsWith(x, y) == BLen(x) >= BLen(y) /\ BLast(x, BLen(y)) = y

\* Vec::truncate
BTruncate(x, k) == IF BLen(x) <= k THEN x ELSE BTake(x, k)

TRAILER == <<Run(0, 2), Run(255, 2)>>

(***************************** Vec<u8> *************************************)
\* Vec::new()
VecNew == [data |-> <<>>, cap |-> 0]

VecOf(x, cap) == [data |-> x, cap |-> Max(cap, BLen(x))]

Spare(v) == v.cap - BLen(v.data)

\* Vec::reserve: amortised growth when the spare capacity is too small
VecReserve(v, additional) ==
    IF Spare(v) >= additional THEN v
    ELSE [v EXCEPT !.cap = Max(MinNonZeroCap,
                               Max(2 * v.cap, BLen(v.data) + additional))]

\* Vec::clear
VecClear(v) == [v EXCEPT !.data = <<>>]

\* Vec::extend_from_slice
VecExtend(v, x) == [VecReserve(v, BLen(x)) EXCEPT !.data = BCat(v.data, x)]

(************************ Param and its values *****************************)
None == <<>>
Some(x) == <<x>>
IsSome(o) == o # <<>>
Unwrap(o) == o[1]

\* Param::new, Param::set_value
ParamNew(name) == [name |-> name, value |-> None]
ParamSetValue(p, value) == [p EXCEPT !.value = value]

DigitChars == <<"0", "1", "2", "3", "4", "5", "6", "7", "8", "9">>
IsDigit(c) == \E i \in 1..10 : DigitChars[i] = c
DigitVal(c) == (CHOOSE i \in 1..10 : DigitChars[i] = c) - 1

\* the value of a digit string, with u8's overflow check at every step
RECURSIVE ParseDigits(_, _)
ParseDigits(s, acc) ==
    IF s = <<>> THEN [ok |-> TRUE, v |-> acc]
    ELSE IF ~IsDigit(s[1]) THEN [ok |-> FALSE, v |-> 0]
    ELSE With(acc * 10 + DigitVal(s[1]), LAMBDA v :
            IF v > 255 THEN [ok |-> FALSE, v |-> 0] ELSE ParseDigits(Tail(s), v))

\* str::parse::<u8>: an optional "+", then at least one digit
ParseU8(s) ==
    IF s = <<>> THEN [ok |-> FALSE, v |-> 0]
    ELSE IF s[1] = "+"
         THEN IF Len(s) = 1 THEN [ok |-> FALSE, v |-> 0]
              ELSE ParseDigits(Tail(s), 0)
    ELSE ParseDigits(s, 0)

\* u8::to_string writing the last digit only
U8ToString_Units(v) == <<DigitChars[(v % 10) + 1]>>

\* u8::to_string
RECURSIVE U8ToString(_)
U8ToString(v) ==
    IF v < 10 THEN <<DigitChars[v + 1]>>
    ELSE Append(U8ToString(v \div 10), DigitChars[(v % 10) + 1])


(******************* the codec engine (flate2 over zlib) *******************)
\* The engine is zlib behind flate2's Compress / Decompress.  Streams are
\* real deflate streams (RFC 1951): bytes hold bits from the least
\* significant bit on, Huffman codes start with their most significant bit.
RECURSIVE Pow2(_)
Pow2(n) == IF n = 0 THEN 1 ELSE 2 * Pow2(n - 1)

\* the LZ77 window of an engine created with the given window bits
WindowSize(bits) == Pow2(bits)

\* the n low bits of v in reverse order (zlib's bi_reverse)
RECURSIVE Reverse(_, _)
Reverse(v, n) == IF n = 0 THEN 0 ELSE (v % 2) * Pow2(n - 1) + Reverse(v \div 2, n - 1)

\* the i-th byte of x, 1 <= i <= BLen(x)
ByteAt(x, i) == BTake(BDrop(x, i - 1), 1)[1].b

\* x repeated k times
RECURSIVE BRepeat(_, _)
BRepeat(x, k) ==
    IF k = 0 THEN <<>>
    ELSE IF k % 2 = 1 THEN BCat(x, BRepeat(x, k - 1))
    ELSE With(BRepeat(x, k \div 2), LAMBDA h : BCat(h, h))

\* base value and extra bits of the length codes 257 .. 285 and of the
\* distance codes 0 .. 29 (zlib's lbase, lext, dbase, dext)
LengthBase == <<3, 4, 5, 6, 7, 8, 9, 10, 11, 13, 15, 17, 19, 23, 27, 31, 35, 43, 51,
                59, 67, 83, 99, 115, 131, 163, 195, 227, 258>>
LengthExtra == <<0, 0, 0, 0, 0, 0, 0, 0, 1, 1, 1, 1, 2, 2, 2, 2, 3, 3, 3, 3, 4, 4, 4,
                 4, 5, 5, 5, 5, 0>>
DistBase == <<1, 2, 3, 4, 5, 7, 9, 13, 17, 25, 33, 49, 65, 97, 129, 193, 257, 385,
              513, 769, 1025, 1537, 2049, 3073, 4097, 6145, 8193, 12289, 16385, 24577>>
DistExtra == <<0, 0, 0, 0, 1, 1, 2, 2, 3, 3, 4, 4, 5, 5, 6, 6, 7, 7, 8, 8, 9, 9, 10,
               10, 11, 11, 12, 12, 13, 13>>

\* the order in which the lengths of the code length code are sent
CodeOrder == <<16, 17, 18, 0, 8, 7, 9, 6, 10, 5, 11, 4, 12, 3, 13, 2, 14, 1, 15>>

MAX_BITS == 15

\* the concatenation of the sequences f[lo] .. f[hi]
RECURSIVE Flatten(_, _, _)
Flatten(f, lo, hi) ==
    IF lo > hi THEN <<>>
    ELSE IF lo = hi THEN f[lo]
    ELSE Flatten(f, lo, (lo + hi) \div 2) \o Flatten(f, (lo + hi) \div 2 + 1, hi)

\* how many symbols of lens have the code length l, and these symbols in
\* their order
CountOf(lens, l) == Cardinality({i \in 1..Len(lens) : lens[i] = l})
SymsOf(lens, l) ==
    IF \A i \in 1..Len(lens) : lens[i] # l THEN <<>>
    ELSE Flatten([i \in 1..Len(lens) |-> IF lens[i] = l THEN <<i - 1>> ELSE <<>>],
                 1, Len(lens))

\* a value for each code length 1 .. MAX_BITS
EachLength(F(_)) ==
    <<F(1), F(2), F(3), F(4), F(5), F(6), F(7), F(8), F(9), F(10), F(11), F(12),
      F(13), F(14), F(15)>>

\* what inflate_table gathers from the code lengths lens: count[] and the
\* symbols sorted by code length
LenCounts(lens) == LET F(l) == CountOf(lens, l) IN EachLength(F)
LenSyms(lens) == LET F(l) == SymsOf(lens, l) IN EachLength(F)
Table(lens) == [count |-> LenCounts(lens), syms |-> LenSyms(lens)]
NoTable == [count |-> <<>>, syms |-> <<>>]

\* the part of the code space left after the codes of length 1 .. l:
\* negative when over-subscribed, zero at l = MAX_BITS when complete
RECURSIVE CodeSpace(_, _)
CodeSpace(count, l) ==
    IF l = 0 THEN 1 ELSE 2 * CodeSpace(count, l - 1) - count[l]

\* inflate_table accepts the code lengths: not over-subscribed, and
\* complete unless there is no code at all or, for a literal/length or
\* distance code, one single code of one bit
TableOk(type, t) ==
    /\ \A l \in 1..MAX_BITS : CodeSpace(t.count, l) >= 0
    /\ \/ CodeSpace(t.count, MAX_BITS) = 0
       \/ \A l \in 1..MAX_BITS : t.count[l] = 0
       \/ type # "CODES" /\ \A l \in 2..MAX_BITS : t.count[l] = 0

\* the symbol whose canonical code of the table t starts the bits of
\* hold, looked for among the codes of at least l bits; first: the first
\* code of length l, code: the first l bits of hold as a code.
\* [st |-> "Sym", sym, len], "More" (bits does not hold a whole code) or
\* "Bad" (no code)
RECURSIVE HuffFrom(_, _, _, _, _)
HuffFrom(t, hold, bits, l, first) ==
    IF l > MAX_BITS THEN [st |-> "Bad", sym |-> 0, len |-> 1]
    ELSE IF l > bits THEN [st |-> "More", sym |-> 0, len |-> 0]
    ELSE With(Reverse(hold % Pow2(l), l) - first, LAMBDA k :
            IF k < t.count[l]
            THEN [st |-> "Sym", len |-> l, sym |-> t.syms[l][k + 1]]
            ELSE HuffFrom(t, hold, bits, l + 1, 2 * (first + t.count[l])))

\* the decoding table inflate_table builds: a table without codes and the
\* unused half of a single one-bit code are one-bit invalid entries
HuffDecode(t, hold, bits) ==
    IF CodeSpace(t.count, MAX_BITS) = 0 THEN HuffFrom(t, hold, bits, 1, 0)
    ELSE IF bits = 0 THEN [st |-> "More", sym |-> 0, len |-> 0]
    ELSE IF t.count[1] > 0 /\ hold % 2 = 0
    THEN [st |-> "Sym", len |-> 1, sym |-> t.syms[1][1]]
    ELSE [st |-> "Bad", sym |-> 0, len |-> 1]

\* the fixed literal/length code: 7 bits for 256 .. 279, 8 bits for
\* 0 .. 143 and 280 .. 287, 9 bits for 144 .. 255
FixedLitLen(hold, bits) ==
    IF bits >= 7 /\ Reverse(hold % 128, 7) <= 23
    THEN [st |-> "Sym", len |-> 7, sym |-> 256 + Reverse(hold % 128, 7)]
    ELSE IF bits >= 8 /\ Reverse(hold % 256, 8) \in 48..191
    THEN [st |-> "Sym", len |-> 8, sym |-> Reverse(hold % 256, 8) - 48]
    ELSE IF bits >= 8 /\ Reverse(hold % 256, 8) \in 192..199
    THEN [st |-> "Sym", len |-> 8, sym |-> 280 + Reverse(hold % 256, 8) - 192]
    ELSE IF bits >= 9 /\ Reverse(hold % 512, 9) \in 400..511
    THEN [st |-> "Sym", len |-> 9, sym |-> 144 + Reverse(hold % 512, 9) - 400]
    ELSE [st |-> "More", sym |-> 0, len |-> 0]

\* the fixed distance code: 5 bits
FixedDist(hold, bits) ==
    IF bits >= 5 THEN [st |-> "Sym", len |-> 5, sym |-> Reverse(hold % 32, 5)]
    ELSE [st |-> "More", sym |-> 0, len |-> 0]

\* Decompress::new_with_window_bits (Decompress::new: 15 bits): zlib's
\* inflate_state.  mode: where inflate stands in the stream; hold, bits: the
\* bit accumulator; hist: the window; codes: "Fixed", "Dynamic" or "None";
\* cl: the lengths of the code length code; lens: the code lengths read;
\* cltab, lentab, disttab: the tables of the three codes of a dynamic block
DecompressNew(wbits) ==
    [wbits |-> wbits, mode |-> "TYPE", last |-> FALSE, hold |-> 0, bits |-> 0,
     hist |-> <<>>, length |-> 0, offset |-> 0, extra |-> 0,
     nlen |-> 0, ndist |-> 0, ncode |-> 0, have |-> 0, cl |-> <<>>, lens |-> <<>>,
     cltab |-> NoTable, lentab |-> NoTable, disttab |-> NoTable, codes |-> "None"]

\* Decompress::reset(false): inflateReset2 with flate2's default window bits
DecompressReset(d) == DecompressNew(15)

\* one call of inflate: the state d, the input not yet read, the output of
\* this call, the room left, whether a byte was read, and how it goes on
InflateCall(d, input, room) ==
    [d |-> d, in |-> input, out |-> <<>>, left |-> room, pulled |-> FALSE, ret |-> "Go"]

\* PULLBYTE, NEEDBITS(n) as far as the input goes, DROPBITS(n), inf_leave
PullByte(r) ==
    [r EXCEPT !.d.hold = @ + r.in[1].b * Pow2(r.d.bits), !.d.bits = @ + 8,
              !.in = BDrop(@, 1), !.pulled = TRUE]

RECURSIVE NeedBits(_, _)
NeedBits(r, n) == IF r.d.bits >= n \/ r.in = <<>> THEN r ELSE NeedBits(PullByte(r), n)

DropBits(r, n) == [r EXCEPT !.d.hold = @ \div Pow2(n), !.d.bits = @ - n]

Leave(r) == [r EXCEPT !.ret = "Leave"]

Bad(r) == [r EXCEPT !.d.mode = "BAD", !.ret = "Err"]

\* a symbol of the code length code; a table without codes reads as the
\* length 0 in one bit
CodeLenDecode(cltab, hold, bits) ==
    With(HuffDecode(cltab, hold, bits), LAMBDA h :
        IF h.st = "Bad" THEN [st |-> "Sym", sym |-> 0, len |-> 1] ELSE h)

\* a literal/length symbol and a distance symbol of the block's codes
LitLenDecode(d, hold, bits) ==
    IF d.codes = "Fixed" THEN FixedLitLen(hold, bits)
    ELSE HuffDecode(d.lentab, hold, bits)

DistDecode(d, hold, bits) ==
    IF d.codes = "Fixed" THEN FixedDist(hold, bits)
    ELSE HuffDecode(d.disttab, hold, bits)

\* the next symbol of the code of the given kind, as far as hold goes
SymDecode(d, kind, hold, bits) ==
    CASE kind = "CODES" -> CodeLenDecode(d.cltab, hold, bits)
      [] kind = "LENS" -> LitLenDecode(d, hold, bits)
      [] OTHER -> DistDecode(d, hold, bits)

\* bytes are read until the code of the next symbol is whole: [r, h]
RECURSIVE NeedSymbol(_, _)
NeedSymbol(r, kind) ==
    With(SymDecode(r.d, kind, r.d.hold, r.d.bits), LAMBDA h :
        IF h.st = "More" /\ r.in # <<>> THEN NeedSymbol(PullByte(r), kind)
        ELSE [r |-> r, h |-> h])

\* TYPE: the header of the next block, or the end after the last block
InflateType(r) ==
    IF r.d.last
    THEN [r EXCEPT !.d.hold = @ \div Pow2(r.d.bits % 8), !.d.bits = @ - (@ % 8),
                   !.d.mode = "DONE", !.ret = "End"]
    ELSE With(NeedBits(r, 3), LAMBDA r1 :
         IF r1.d.bits < 3 THEN Leave(r1)
         ELSE With((r1.d.hold \div 2) % 4, LAMBDA type :
              With([DropBits(r1, 3) EXCEPT !.d.last = (r1.d.hold % 2 = 1)], LAMBDA r2 :
                 CASE type = 0 -> [r2 EXCEPT !.d.mode = "STORED"]
                   [] type = 1 -> [r2 EXCEPT !.d.mode = "LEN", !.d.codes = "Fixed"]
                   [] type = 2 -> [r2 EXCEPT !.d.mode = "TABLE"]
                   [] OTHER -> Bad(r2))))

\* STORED: LEN and NLEN after the bits up to the byte boundary
InflateStored(r) ==
    With(NeedBits([r EXCEPT !.d.hold = @ \div Pow2(r.d.bits % 8),
                            !.d.bits = @ - (@ % 8)], 24), LAMBDA r1 :
        IF r1.d.bits < 24 \/ r1.in = <<>> THEN Leave(r1)
        ELSE With([r1 EXCEPT !.in = BDrop(@, 1), !.pulled = TRUE,
                             !.d.hold = 0, !.d.bits = 0], LAMBDA r2 :
             IF (r1.d.hold % 65536) + (r1.d.hold \div 65536) + 256 * r1.in[1].b # 65535
             THEN Bad(r2)
             ELSE [r2 EXCEPT !.d.length = r1.d.hold % 65536, !.d.mode = "COPY"]))

\* COPY: the data of a stored block
InflateCopy(r) ==
    IF r.d.length = 0 THEN [r EXCEPT !.d.mode = "TYPE"]
    ELSE With(Min(r.d.length, Min(BLen(r.in), r.left)), LAMBDA copy :
         IF copy = 0 THEN Leave(r)
         ELSE [r EXCEPT !.out = BCat(@, BTake(r.in, copy)), !.in = BDrop(@, copy),
                        !.left = @ - copy, !.d.length = @ - copy, !.pulled = TRUE])

\* TABLE: the sizes of the codes of a dynamic block
InflateTable(r) ==
    With(NeedBits(r, 14), LAMBDA r1 :
        IF r1.d.bits < 14 THEN Leave(r1)
        ELSE With([DropBits(r1, 14) EXCEPT
                       !.d.nlen = (r1.d.hold % 32) + 257,
                       !.d.ndist = ((r1.d.hold \div 32) % 32) + 1,
                       !.d.ncode = ((r1.d.hold \div 1024) % 16) + 4,
                       !.d.have = 0, !.d.cl = [i \in 1..19 |-> 0],
                       !.d.mode = "LENLENS"], LAMBDA r2 :
             IF r2.d.nlen > 286 \/ r2.d.ndist > 30 THEN Bad(r2) ELSE r2))

\* LENLENS: the lengths of the code length code
InflateLenLens(r) ==
    IF r.d.have < r.d.ncode
    THEN With(NeedBits(r, 3), LAMBDA r1 :
            IF r1.d.bits < 3 THEN Leave(r1)
            ELSE [DropBits(r1, 3) EXCEPT !.d.cl[CodeOrder[r.d.have + 1] + 1] = r1.d.hold % 8,
                                         !.d.have = @ + 1])
    ELSE With(Table(r.d.cl), LAMBDA t :
         IF ~TableOk("CODES", t) THEN Bad(r)
         ELSE [r EXCEPT !.d.have = 0, !.d.lens = <<>>, !.d.cltab = t,
                        !.d.mode = "CODELENS"])

\* CODELENS: the code lengths of the literal/length and distance codes
InflateCodeLens(r) ==
    IF Len(r.d.lens) < r.d.nlen + r.d.ndist
    THEN With(NeedSymbol(r, "CODES"), LAMBDA s :
         IF s.h.st = "More" THEN Leave(s.r)
         ELSE IF s.h.sym < 16
         THEN [DropBits(s.r, s.h.len) EXCEPT !.d.lens = Append(@, s.h.sym)]
         ELSE
         With(CASE s.h.sym = 16 -> 2 [] s.h.sym = 17 -> 3 [] OTHER -> 7, LAMBDA n :
         With(NeedBits(s.r, s.h.len + n), LAMBDA r1 :
         IF r1.d.bits < s.h.len + n THEN Leave(r1)
         ELSE
         With(((r1.d.hold \div Pow2(s.h.len)) % Pow2(n))
                  + (IF s.h.sym = 18 THEN 11 ELSE 3), LAMBDA copy :
         With(DropBits(r1, s.h.len + n), LAMBDA r2 :
         IF (s.h.sym = 16 /\ r.d.lens = <<>>)
               \/ Len(r.d.lens) + copy > r.d.nlen + r.d.ndist
         THEN Bad(r2)
         ELSE [r2 EXCEPT !.d.lens =
                   @ \o [i \in 1..copy |->
                            IF s.h.sym = 16 THEN r.d.lens[Len(r.d.lens)] ELSE 0]])))))
    ELSE IF r.d.lens[257] = 0 THEN Bad(r)
    ELSE With(Table(SubSeq(r.d.lens, 1, r.d.nlen)), LAMBDA lt :
         IF ~TableOk("LENS", lt) THEN Bad(r)
         ELSE With(Table(SubSeq(r.d.lens, r.d.nlen + 1, r.d.nlen + r.d.ndist)), LAMBDA dt :
              IF ~TableOk("DISTS", dt) THEN Bad(r)
              ELSE [r EXCEPT !.d.mode = "LEN", !.d.codes = "Dynamic",
                             !.d.lentab = lt, !.d.disttab = dt]))

\* LEN: a literal, the end of the block, or the length of a match
InflateLen(r) ==
    With(NeedSymbol(r, "LENS"), LAMBDA s :
        IF s.h.st = "More" THEN Leave(s.r)
        ELSE IF s.h.st = "Bad" \/ s.h.sym > 285 THEN Bad(DropBits(s.r, s.h.len))
        ELSE IF s.h.sym < 256
        THEN [DropBits(s.r, s.h.len) EXCEPT !.d.length = s.h.sym, !.d.mode = "LIT"]
        ELSE IF s.h.sym = 256
        THEN [DropBits(s.r, s.h.len) EXCEPT !.d.mode = "TYPE", !.d.codes = "None",
                  !.d.lens = <<>>, !.d.cl = <<>>,
                  !.d.cltab = NoTable, !.d.lentab = NoTable, !.d.disttab = NoTable,
                  !.d.nlen = 0, !.d.ndist = 0,
                  !.d.ncode = 0, !.d.have = 0, !.d.length = 0, !.d.offset = 0,
                  !.d.extra = 0]
        ELSE [DropBits(s.r, s.h.len) EXCEPT !.d.length = LengthBase[s.h.sym - 256],
                                            !.d.extra = LengthExtra[s.h.sym - 256],
                                            !.d.mode = "LENEXT"])

\* LENEXT: the extra bits of the length
InflateLenExt(r) ==
    With(NeedBits(r, r.d.extra), LAMBDA r1 :
        IF r1.d.bits < r.d.extra THEN Leave(r1)
        ELSE [DropBits(r1, r.d.extra) EXCEPT !.d.length = @ + (r1.d.hold % Pow2(r.d.extra)),
                                             !.d.mode = "DIST"])

\* DIST: the distance symbol
InflateDist(r) ==
    With(NeedSymbol(r, "DISTS"), LAMBDA s :
        IF s.h.st = "More" THEN Leave(s.r)
        ELSE IF s.h.st = "Bad" \/ s.h.sym > 29 THEN Bad(DropBits(s.r, s.h.len))
        ELSE [DropBits(s.r, s.h.len) EXCEPT !.d.offset = DistBase[s.h.sym + 1],
                                            !.d.extra = DistExtra[s.h.sym + 1],
                                            !.d.mode = "DISTEXT"])

\* DISTEXT: the extra bits of the distance
InflateDistExt(r) ==
    With(NeedBits(r, r.d.extra), LAMBDA r1 :
        IF r1.d.bits < r.d.extra THEN Leave(r1)
        ELSE [DropBits(r1, r.d.extra) EXCEPT !.d.offset = @ + (r1.d.hold % Pow2(r.d.extra)),
                                             !.d.mode = "MATCH"])

\* n bytes of the string that starts offset bytes before the end of h and
\* runs into itself
CopyBack(h, offset, n) ==
    IF offset >= n THEN BTake(BLast(h, offset), n)
    ELSE BTake(BRepeat(BLast(h, offset), (n + offset - 1) \div offset), n)

\* MATCH: the copy of a match, as far as there is room; the distance
\* reaches the window and the output of this call
InflateMatch(r) ==
    IF r.left = 0 THEN Leave(r)
    ELSE IF r.d.offset > BLen(r.d.hist) + BLen(r.out) THEN Bad(r)
    ELSE With(Min(r.d.length, r.left), LAMBDA copy :
         [r EXCEPT !.out = BCat(@, CopyBack(BCat(r.d.hist, r.out), r.d.offset, copy)),
                   !.left = @ - copy, !.d.length = @ - copy,
                   !.d.mode = IF r.d.length = copy THEN "LEN" ELSE "MATCH"])

\* LIT: a literal is written when there is room for it
InflateLit(r) ==
    IF r.left = 0 THEN Leave(r)
    ELSE [r EXCEPT !.out = BCat(@, <<Run(r.d.length, 1)>>), !.left = @ - 1,
                   !.d.mode = "LEN"]

\* one turn of inflate's loop
InflateStep(r) ==
    CASE r.d.mode = "TYPE" -> InflateType(r)
      [] r.d.mode = "STORED" -> InflateStored(r)
      [] r.d.mode = "COPY" -> InflateCopy(r)
      [] r.d.mode = "TABLE" -> InflateTable(r)
      [] r.d.mode = "LENLENS" -> InflateLenLens(r)
      [] r.d.mode = "CODELENS" -> InflateCodeLens(r)
      [] r.d.mode = "LEN" -> InflateLen(r)
      [] r.d.mode = "LENEXT" -> InflateLenExt(r)
      [] r.d.mode = "DIST" -> InflateDist(r)
      [] r.d.mode = "DISTEXT" -> InflateDistExt(r)
      [] r.d.mode = "MATCH" -> InflateMatch(r)
      [] r.d.mode = "LIT" -> InflateLit(r)
      [] r.d.mode = "DONE" -> [r EXCEPT !.ret = "End"]
      [] OTHER -> [r EXCEPT !.ret = "Err"]

\* inflate's loop: at most n turns, and all turns until it leaves
RECURSIVE InflateRun(_, _)
InflateRun(r, n) ==
    IF r.ret # "Go" THEN r
    ELSE IF n = 1 THEN InflateStep(r)
    ELSE InflateRun(InflateRun(r, n \div 2), n - n \div 2)

RECURSIVE Inflate(_)
Inflate(r) == IF r.ret # "Go" THEN r ELSE Inflate(InflateRun(r, 64))

\* Decompress::decompress_vec(input, v, FlushDecompress::Sync): [status, d, v]
\* inflate runs until the input or the room is used up, the stream ends or
\* is found invalid; the output goes to the spare capacity of v and to the
\* window; a call that read nothing and wrote nothing is a BufError
DecompressVec(d, input, v) ==
    With(Inflate(InflateCall(d, input, Spare(v))), LAMBDA r :
        [status |-> CASE r.ret = "Err" -> "Err"
                      [] r.ret = "End" -> "StreamEnd"
                      [] ~r.pulled /\ r.out = <<>> -> "BufError"
                      [] OTHER -> "Ok",
         d |-> [r.d EXCEPT !.hist = BLast(BCat(@, r.out), WindowSize(r.d.wbits))],
         v |-> [v EXCEPT !.data = BCat(@, r.out)]])

(********************** Huffman codes of deflate (trees.c) ******************)
\* the elements of a finite set of integers in increasing order
SortedSeq(S) ==
    [i \in 1..Cardinality(S) |-> CHOOSE s \in S : Cardinality({t \in S : t < s}) = i - 1]

\* the sum of f[i] over lo .. hi, f a sequence of integers
RECURSIVE SumSeq(_, _, _)
SumSeq(f, lo, hi) ==
    IF lo > hi THEN 0
    ELSE IF lo = hi THEN f[lo]
    ELSE SumSeq(f, lo, (lo + hi) \div 2) + SumSeq(f, (lo + hi) \div 2 + 1, hi)

\* the index of the last entry of the increasing table that is <= v
CodeIndex(table, v) ==
    CHOOSE i \in 1..Len(table) :
        table[i] <= v /\ (i = Len(table) \/ table[i + 1] > v)

\* a symbol of the block: a literal <<0, byte>> or a match <<distance, length>>;
\* its literal/length symbol and its distance symbol
LitLenSym(t) == IF t[1] = 0 THEN t[2] ELSE 256 + CodeIndex(LengthBase, t[2])
DistSym(t) == CodeIndex(DistBase, t[1]) - 1

\* extra bits sent after the symbol n of the literal/length (extra_lbits),
\* distance (extra_dbits) and code length (extra_blbits) codes
ExtraBits(kind, n) ==
    CASE kind = "LENS" -> IF n > 256 THEN LengthExtra[n - 256] ELSE 0
      [] kind = "DISTS" -> DistExtra[n + 1]
      [] OTHER -> CASE n = 16 -> 2 [] n = 17 -> 3 [] n = 18 -> 7 [] OTHER -> 0

\* the code lengths of the static codes (static_ltree, static_dtree)
StaticLen(kind, n) ==
    IF kind = "DISTS" THEN 5
    ELSE IF n <= 143 THEN 8 ELSE IF n <= 255 THEN 9 ELSE IF n <= 279 THEN 7 ELSE 8

\* the static code of the literal/length symbol n
StaticCode(n) ==
    IF n <= 143 THEN 48 + n
    ELSE IF n <= 255 THEN 400 + (n - 144)
    ELSE IF n <= 279 THEN n - 256
    ELSE 192 + (n - 280)

\* how often each symbol occurs: the symbols that occur in syms (a
\* sequence of symbols) mapped to their counts
FreqOf(syms) ==
    [n \in {syms[i] : i \in 1..Len(syms)} |->
        Cardinality({i \in 1..Len(syms) : syms[i] = n})]

\* zlib's order of two nodes in the heap (smaller)
Smaller(t, n, m) ==
    t.freq[n] < t.freq[m] \/ (t.freq[n] = t.freq[m] /\ t.depth[n] <= t.depth[m])

\* pqdownheap: the node v sinks from the place k of the heap
RECURSIVE PqDownHeap(_, _, _, _)
PqDownHeap(t, heap, v, k) ==
    IF 2 * k > Len(heap) THEN [heap EXCEPT ![k] = v]
    ELSE With(IF 2 * k < Len(heap) /\ Smaller(t, heap[2 * k + 1], heap[2 * k])
              THEN 2 * k + 1 ELSE 2 * k, LAMBDA j :
         IF Smaller(t, v, heap[j]) THEN [heap EXCEPT ![k] = v]
         ELSE PqDownHeap(t, [heap EXCEPT ![k] = heap[j]], v, j))

\* the heap is established from the place hi down to the place lo
RECURSIVE Heapify(_, _, _, _)
Heapify(t, heap, lo, hi) ==
    IF lo > hi \/ heap = <<>> THEN heap
    ELSE IF lo = hi THEN PqDownHeap(t, heap, heap[lo], lo)
    ELSE Heapify(t, Heapify(t, heap, (lo + hi) \div 2 + 1, hi), lo, (lo + hi) \div 2)

\* build_tree's loop, one turn: the two least frequent nodes n = heap[1]
\* and m leave the heap and are joined in the new node; pushed: the nodes
\* taken out, first to last
JoinStep(j) ==
    With(PqDownHeap(j.t, SubSeq(j.heap, 1, Len(j.heap) - 1), j.heap[Len(j.heap)], 1),
         LAMBDA h :
    With([freq |-> (j.node :> (j.t.freq[j.heap[1]] + j.t.freq[h[1]])) @@ j.t.freq,
          depth |-> (j.node :> (Max(j.t.depth[j.heap[1]], j.t.depth[h[1]]) + 1))
                    @@ j.t.depth,
          dad |-> (j.heap[1] :> j.node) @@ (h[1] :> j.node) @@ j.t.dad], LAMBDA t1 :
        [t |-> t1, heap |-> PqDownHeap(t1, h, j.node, 1), node |-> j.node + 1,
         pushed |-> j.pushed \o <<j.heap[1], h[1]>>]))

\* n turns of the loop
RECURSIVE JoinNodes(_, _)
JoinNodes(j, n) ==
    IF n = 0 \/ Len(j.heap) < 2 THEN j
    ELSE IF n = 1 THEN JoinStep(j)
    ELSE JoinNodes(JoinNodes(j, n \div 2), n - n \div 2)

\* gen_bitlen: the depth of the node n below the root, at most max_length
RECURSIVE BitLen(_, _, _, _)
BitLen(t, root, max_length, n) ==
    IF n = root THEN 0 ELSE Min(max_length, BitLen(t, root, max_length, t.dad[n]) + 1)

\* gen_bitlen's repair of an overflowing tree: bl_count after leaves were
\* moved down until the code space is used exactly
RECURSIVE FixOverflow(_, _, _)
FixOverflow(bl_count, max_length, overflow) ==
    IF overflow <= 0 \/ bl_count = <<>> THEN bl_count
    ELSE With(CHOOSE b \in 1..(max_length - 1) :
                  bl_count[b] # 0 /\ \A c \in (b + 1)..(max_length - 1) : bl_count[c] = 0,
              LAMBDA bits :
         FixOverflow([l \in 1..max_length |->
                         bl_count[l] + (IF l = bits THEN -1 ELSE 0)
                                     + (IF l = bits + 1 THEN 2 ELSE 0)
                                     + (IF l = max_length THEN -1 ELSE 0)],
                     max_length, overflow - 2))

\* the length given to the i-th leaf taken out of the heap when the
\* lengths are dealt out again, the longest first
RECURSIVE DealtLen(_, _, _)
DealtLen(bl_count, bits, i) ==
    IF i <= bl_count[bits] THEN bits ELSE DealtLen(bl_count, bits - 1, i - bl_count[bits])

\* build_tree's symbols added with count 1 when fewer than two occur
ForcedLeaves(used) ==
    IF Len(used) >= 2 THEN <<>>
    ELSE IF Len(used) = 0 THEN <<0, 1>>
    ELSE IF used[1] < 2 THEN <<used[1] + 1>> ELSE <<0>>

\* build_tree's heap of the leaves, before the first join
JoinStart(freq, leaves, elems) ==
    With([freq |-> [n \in {leaves[i] : i \in 1..Len(leaves)} |->
                       IF n \in DOMAIN freq THEN freq[n] ELSE 1],
          depth |-> [n \in {leaves[i] : i \in 1..Len(leaves)} |-> 0],
          dad |-> <<>>], LAMBDA t0 :
        [t |-> t0, heap |-> Heapify(t0, leaves, 1, Len(leaves) \div 2),
         node |-> elems, pushed |-> <<>>])

\* gen_bitlen: the lengths of the leaves of the finished tree j
LeafLens(j, leaves, elems, max_length) ==
    With([i \in 1..Len(leaves) |-> BitLen(j.t, j.heap[1], max_length, leaves[i])],
         LAMBDA len :
    IF \A n \in DOMAIN j.t.dad : BitLen(j.t, j.heap[1], max_length, j.t.dad[n]) < max_length
    THEN [n \in DOMAIN j.t.dad \cap 0..(elems - 1) |->
             len[CHOOSE i \in 1..Len(leaves) : leaves[i] = n]]
    ELSE With(FixOverflow([l \in 1..max_length |->
                              Cardinality({i \in 1..Len(leaves) : len[i] = l})],
                          max_length,
                          Cardinality({n \in DOMAIN j.t.dad :
                              BitLen(j.t, j.heap[1], max_length, j.t.dad[n]) = max_length})),
              LAMBDA bl_count :
         With(SelectSeq(j.pushed, LAMBDA m : m < elems), LAMBDA order :
         [n \in DOMAIN j.t.dad \cap 0..(elems - 1) |->
             DealtLen(bl_count, max_length,
                      CHOOSE i \in 1..Len(order) : order[i] = n)])))

\* build_tree: the code lengths of the symbols that occur (freq: symbol to
\* count), with symbols added so that there are two; [len, max_code]
BuildTree(freq, elems, max_length) ==
    With(SortedSeq(DOMAIN freq), LAMBDA used :
    With(used \o ForcedLeaves(used), LAMBDA leaves :
        [len |-> LeafLens(JoinNodes(JoinStart(freq, leaves, elems), Len(leaves) - 1),
                          leaves, elems, max_length),
         max_code |-> IF Len(used) >= 2 THEN used[Len(used)]
                      ELSE IF Len(used) = 0 THEN 1
                      ELSE Max(used[1], ForcedLeaves(used)[1])]))

\* gen_codes: the canonical code of the symbol n for the code lengths len
\* (symbol to length): codes of one length follow each other in the order
\* of the symbols, after twice the last code of the length before
RECURSIVE FirstCode(_, _)
FirstCode(len, bits) ==
    IF bits <= 1 THEN 0
    ELSE 2 * (FirstCode(len, bits - 1)
              + Cardinality({n \in DOMAIN len : len[n] = bits - 1}))

CodeOf(len, n) ==
    FirstCode(len, len[n]) + Cardinality({m \in DOMAIN len : len[m] = len[n] /\ m < n})

\* send_bits of a Huffman code (first bit first) and of a value (lowest
\* bit first), as sequences of bits
CodeBits(code, length) == [i \in 1..length |-> (code \div Pow2(length - i)) % 2]
ValueBits(value, length) == [i \in 1..length |-> (value \div Pow2(i - 1)) % 2]

\* the code lengths of the symbols 0 .. max_code as runs of equal
\* lengths: those of the symbols used[lo] .. used[hi] with the unused
\* symbols before each
RECURSIVE LenRuns(_, _, _, _)
LenRuns(len, used, lo, hi) ==
    IF lo > hi THEN <<>>
    ELSE IF lo = hi
    THEN With(used[lo] - (IF lo = 1 THEN 0 ELSE used[lo - 1] + 1), LAMBDA gap :
             BCat(IF gap > 0 THEN <<Run(0, gap)>> ELSE <<>>, <<Run(len[used[lo]], 1)>>))
    ELSE BCat(LenRuns(len, used, lo, (lo + hi) \div 2),
              LenRuns(len, used, (lo + hi) \div 2 + 1, hi))

\* scan_tree / send_tree: what is sent for n equal code lengths l in a row,
\* as <<symbol of the code length code, extra value>>; first: l was not the
\* length sent just before
RECURSIVE RunItems(_, _, _)
RunItems(l, n, first) ==
    IF n = 0 THEN <<>>
    ELSE
    With(Min(n, IF l = 0 THEN 138 ELSE IF first THEN 7 ELSE 6), LAMBDA count :
        (IF count < (IF l # 0 /\ first THEN 4 ELSE 3) THEN [i \in 1..count |-> <<l, 0>>]
         ELSE IF l # 0 THEN IF first THEN <<<<l, 0>>, <<16, count - 4>>>>
                            ELSE <<<<16, count - 3>>>>
         ELSE IF count <= 10 THEN <<<<17, count - 3>>>>
         ELSE <<<<18, count - 11>>>>)
        \o RunItems(l, n - count, FALSE))

\* what is sent for a whole tree
TreeItems(tree) ==
    With(LenRuns(tree.len, SortedSeq(DOMAIN tree.len), 1, Cardinality(DOMAIN tree.len)),
         LAMBDA runs :
        Flatten([i \in 1..Len(runs) |-> RunItems(runs[i].b, runs[i].n, TRUE)],
                1, Len(runs)))

\* a code: the static one, or a dynamic one given by its code lengths
StaticCodes == [static |-> TRUE, len |-> <<>>]
DynamicCodes(len) == [static |-> FALSE, len |-> len]

\* the bits of the symbol n in a code of the given kind
SymbolBits(kind, code, n) ==
    IF code.static
    THEN CodeBits(IF kind = "DISTS" THEN n ELSE StaticCode(n), StaticLen(kind, n))
    ELSE CodeBits(CodeOf(code.len, n), code.len[n])

\* compress_block: the bits of one symbol of the block
TokenBits(lcode, dcode, t) ==
    IF t[1] = 0 THEN SymbolBits("LENS", lcode, t[2])
    ELSE SymbolBits("LENS", lcode, LitLenSym(t))
         \o ValueBits(t[2] - LengthBase[LitLenSym(t) - 256], ExtraBits("LENS", LitLenSym(t)))
         \o SymbolBits("DISTS", dcode, DistSym(t))
         \o ValueBits(t[1] - DistBase[DistSym(t) + 1], ExtraBits("DISTS", DistSym(t)))

\* compress_block: the symbols of the block and the end-of-block symbol
BlockBits(lcode, dcode, syms) ==
    Flatten([i \in 1..Len(syms) |-> TokenBits(lcode, dcode, syms[i])], 1, Len(syms))
    \o SymbolBits("LENS", lcode, 256)

\* the bits a code of the given kind spends on the symbols that occur:
\* code lengths and extra bits
CodeCost(kind, freq, code) ==
    With(SortedSeq(DOMAIN freq), LAMBDA used :
        SumSeq([i \in 1..Len(used) |->
                   freq[used[i]] * ((IF code.static THEN StaticLen(kind, used[i])
                                     ELSE code.len[used[i]])
                                    + ExtraBits(kind, used[i]))], 1, Len(used)))

\* send_all_trees: the header of a dynamic block
AllTreesBits(ltree, dtree, bltree, items, blcodes) ==
    ValueBits(ltree.max_code + 1 - 257, 5) \o ValueBits(dtree.max_code + 1 - 1, 5)
    \o ValueBits(blcodes - 4, 4)
    \o Flatten([i \in 1..blcodes |->
                   ValueBits(IF CodeOrder[i] \in DOMAIN bltree.len
                             THEN bltree.len[CodeOrder[i]] ELSE 0, 3)], 1, blcodes)
    \o Flatten([i \in 1..Len(items) |->
                   SymbolBits("CODES", DynamicCodes(bltree.len), items[i][1])
                   \o ValueBits(items[i][2], ExtraBits("CODES", items[i][1]))],
               1, Len(items))

\* how often the literal/length symbols and the distance symbols of the
\* block occur; the end-of-block symbol occurs once
BlockFreq(syms) ==
    [l |-> FreqOf([i \in 1..Len(syms) + 1 |->
                      IF i > Len(syms) THEN 256 ELSE LitLenSym(syms[i])]),
     d |-> FreqOf(With(SelectSeq(syms, LAMBDA t : t[1] # 0), LAMBDA ms :
                      [i \in 1..Len(ms) |-> DistSym(ms[i])]))]

\* build_bl_tree: the number of code length codes that are sent
BlCodes(bltree) ==
    CHOOSE k \in 4..19 :
        /\ k = 4 \/ CodeOrder[k] \in DOMAIN bltree.len
        /\ \A i \in (k + 1)..19 : CodeOrder[i] \notin DOMAIN bltree.len

\* the dynamic codes of a block: the two trees, what is sent for them, and
\* the tree of the code length code
DynamicTrees(freq) ==
    With([l |-> BuildTree(freq.l, 286, MAX_BITS), d |-> BuildTree(freq.d, 30, MAX_BITS)],
         LAMBDA tree :
    With(TreeItems(tree.l) \o TreeItems(tree.d), LAMBDA items :
        [l |-> tree.l, d |-> tree.d, items |-> items,
         bl |-> BuildTree(FreqOf([i \in 1..Len(items) |-> items[i][1]]), 19, 7)]))

\* opt_len: the bits of the block in its dynamic codes
OptLen(freq, dyn) ==
    CodeCost("LENS", freq.l, DynamicCodes(dyn.l.len))
    + CodeCost("DISTS", freq.d, DynamicCodes(dyn.d.len))
    + CodeCost("CODES", FreqOf([i \in 1..Len(dyn.items) |-> dyn.items[i][1]]),
               DynamicCodes(dyn.bl.len))
    + 3 * BlCodes(dyn.bl) + 14

\* static_len: the bits of the block in the static codes
StaticLenOf(freq) ==
    CodeCost("LENS", freq.l, StaticCodes) + CodeCost("DISTS", freq.d, StaticCodes)

\* _tr_flush_block at level 1 .. 9 for the symbols syms of a block that
\* stands for stored_len bytes: [type, bits]; the stored form is taken
\* when it is at least as short and can_store (the bytes are in the window),
\* the static form when the dynamic form is not shorter
FlushBlockBits(syms, stored_len, can_store) ==
    With(BlockFreq(syms), LAMBDA freq :
    With(DynamicTrees(freq), LAMBDA dyn :
    With([static |-> (StaticLenOf(freq) + 10) \div 8,
          opt |-> (OptLen(freq, dyn) + 10) \div 8], LAMBDA lenb :
    IF stored_len + 4 <= Min(lenb.static, lenb.opt) /\ can_store
    THEN [type |-> "Stored", bits |-> <<>>]
    ELSE IF lenb.static <= lenb.opt
    THEN [type |-> "Static",
          bits |-> <<0, 1, 0>> \o BlockBits(StaticCodes, StaticCodes, syms)]
    ELSE [type |-> "Dynamic",
          bits |-> <<0, 0, 1>>
                   \o AllTreesBits(dyn.l, dyn.d, dyn.bl, dyn.items, BlCodes(dyn.bl))
                   \o BlockBits(DynamicCodes(dyn.l.len), DynamicCodes(dyn.d.len), syms)])))

(*************************** deflate (deflate.c) ***************************)
MIN_MATCH == 3
MAX_MATCH == 258
MIN_LOOKAHEAD == MAX_MATCH + MIN_MATCH + 1
TOO_FAR == 4096
LitBufSize == 16384

\* configuration_table: the matching limits and the function of a level
Config(level) ==
    CASE level = 0 -> [good |-> 0, lazy |-> 0, nice |-> 0, chain |-> 0, func |-> "stored"]
      [] level = 1 -> [good |-> 4, lazy |-> 4, nice |-> 8, chain |-> 4, func |-> "fast"]
      [] level = 2 -> [good |-> 4, lazy |-> 5, nice |-> 16, chain |-> 8, func |-> "fast"]
      [] level = 3 -> [good |-> 4, lazy |-> 6, nice |-> 32, chain |-> 32, func |-> "fast"]
      [] level = 4 -> [good |-> 4, lazy |-> 4, nice |-> 16, chain |-> 16, func |-> "slow"]
      [] level = 5 -> [good |-> 8, lazy |-> 16, nice |-> 32, chain |-> 32, func |-> "slow"]
      [] level = 6 -> [good |-> 8, lazy |-> 16, nice |-> 128, chain |-> 128, func |-> "slow"]
      [] level = 7 -> [good |-> 8, lazy |-> 32, nice |-> 128, chain |-> 256, func |-> "slow"]
      [] level = 8 -> [good |-> 32, lazy |-> 128, nice |-> 258, chain |-> 1024, func |-> "slow"]
      [] OTHER -> [good |-> 32, lazy |-> 258, nice |-> 258, chain |-> 4096, func |-> "slow"]

\* Compress::new_with_window_bits (Compress::new: 15 bits): deflateInit2 and
\* lm_init. window: the bytes in the sliding window, strstart: where the
\* next string starts in it, ins: the places entered in the hash table as
\* intervals, syms: the symbols of the block being gathered, pending and
\* bi_buf: output not yet given out
CompressNew(level, bits) ==
    [bits |-> bits, level |-> level, total_in |-> 0, last_flush |-> "Unset",
     pending |-> <<>>, bi_buf |-> 0, bi_valid |-> 0,
     window |-> <<>>, strstart |-> 0, block_start |-> 0, insert |-> 0, ins |-> <<>>,
     match_length |-> MIN_MATCH - 1, match_start |-> 0, match_available |-> FALSE,
     syms |-> <<>>]

\* Compress::reset (deflateReset)
CompressReset(e) == CompressNew(e.level, e.bits)

\* Compress::set_level (deflateParams): when the level has another
\* compression function and deflate was called since the last reset, zlib
\* flushes with deflate(Z_BLOCK), which fails for want of an output buffer,
\* and flate2 panics; the stream is as before
CompressSetLevel(e, level) ==
    IF Config(level).func # Config(e.level).func /\ e.last_flush # "Unset"
    THEN [panic |-> TRUE, e |-> e]
    ELSE [panic |-> FALSE, e |-> [e EXCEPT !.level = level]]

\* zlib's RANK of a flush value, shifted to the naturals
Rank(f) == CASE f = "Unset" -> 0 [] f = "Reset" -> 1 [] f = "None" -> 2
             [] f = "Sync" -> 3

\* a sequence of bytes as a byte string
RECURSIVE FromBytes(_, _, _)
FromBytes(s, lo, hi) ==
    IF lo > hi THEN <<>>
    ELSE IF lo = hi THEN <<Run(s[lo], 1)>>
    ELSE BCat(FromBytes(s, lo, (lo + hi) \div 2), FromBytes(s, (lo + hi) \div 2 + 1, hi))

\* send_bits: the bits go behind those of bi_buf, whole bytes to pending;
\* windup: bi_windup fills the last byte with zero bits
SendBits(e, bits, windup) ==
    With(ValueBits(e.bi_buf, e.bi_valid) \o bits, LAMBDA b0 :
    With(IF windup THEN b0 \o [i \in 1..((8 - (Len(b0) % 8)) % 8) |-> 0] ELSE b0, LAMBDA b :
    With(Len(b) \div 8, LAMBDA k :
        [e EXCEPT !.pending = BCat(@, FromBytes(
                      [i \in 1..k |-> SumSeq([j \in 1..8 |-> b[8 * (i - 1) + j] * Pow2(j - 1)],
                                             1, 8)], 1, k)),
                  !.bi_valid = Len(b) - 8 * k,
                  !.bi_buf = SumSeq([j \in 1..(Len(b) - 8 * k) |-> b[8 * k + j] * Pow2(j - 1)],
                                    1, Len(b) - 8 * k)])))

\* the lengths that follow the header bits of a stored block of len bytes
StoredLengths(len) ==
    FromBytes(<<len % 256, len \div 256, 255 - (len % 256), 255 - (len \div 256)>>, 1, 4)

\* _tr_stored_block: the header of a stored block, then its bytes
StoredBlock(e, data) ==
    With(SendBits(e, <<0, 0, 0>>, TRUE), LAMBDA e1 :
        [e1 EXCEPT !.pending = BCat(BCat(@, StoredLengths(BLen(data))), data)])

\* deflate's flush_pending: as much of e.pending as fits goes to v
FlushPending(e, v) ==
    With(Min(Spare(v), BLen(e.pending)), LAMBDA k :
        [e |-> [e EXCEPT !.pending = BDrop(@, k)],
         v |-> [v EXCEPT !.data = BCat(@, BTake(e.pending, k))]])

\* deflate_stored's smallest block that is written while more may come
MinBlock(bits) == Min(PendingBufSize - 5, WindowSize(bits))

\* the bytes of the header of a stored block, the waiting bits included
StoredHeaderLen(e) == (e.bi_valid + 42) \div 8

\* deflate_stored's slide of the upper half of the window to the lower half
SlideStored(e) ==
    With(WindowSize(e.bits), LAMBDA wsize :
        [e EXCEPT !.window = BDrop(@, wsize), !.strstart = @ - wsize,
                  !.block_start = @ - wsize,
                  !.insert = Min(@, e.strstart - wsize)])

\* deflate_stored, the do loop: stored blocks are copied straight to the
\* output, first from the window, then from the input, while they are as
\* long as MinBlock or, when flushing, hold all that is left
\* (c: [e, in, v, flush])
RECURSIVE StoredDirect(_)
StoredDirect(c) ==
    IF Spare(c.v) < StoredHeaderLen(c.e) THEN c
    ELSE
    With(c.e.strstart - c.e.block_start, LAMBDA left :
    With(Min(MAX_STORED, Min(left + BLen(c.in), Spare(c.v) - StoredHeaderLen(c.e))),
         LAMBDA len :
    IF len < MinBlock(c.e.bits) /\ (len = 0 \/ c.flush = "None" \/ len # left + BLen(c.in))
    THEN c
    ELSE
    With(Min(left, len), LAMBDA w :
    With(FlushPending(StoredBlock(c.e, BCat(BTake(BDrop(c.e.window, c.e.block_start), w),
                                            BTake(c.in, len - w))), c.v), LAMBDA p :
        StoredDirect([c EXCEPT !.e = [p.e EXCEPT !.block_start = @ + w,
                                                 !.total_in = @ + (len - w)],
                               !.v = p.v, !.in = BDrop(@, len - w)])))))

\* deflate_stored, after the loop: the window takes the input that was
\* copied straight to the output, its last WindowSize bytes when it is that
\* long
StoredHistory(e, copied) ==
    With(WindowSize(e.bits), LAMBDA wsize :
    With(BLen(copied), LAMBDA used :
    IF used = 0 THEN e
    ELSE IF used >= wsize
    THEN [e EXCEPT !.window = BDrop(copied, used - wsize), !.strstart = wsize,
                   !.insert = wsize, !.block_start = wsize]
    ELSE With(IF 2 * wsize - e.strstart <= used THEN SlideStored(e) ELSE e, LAMBDA e1 :
         [e1 EXCEPT !.window = BCat(@, copied), !.strstart = @ + used,
                    !.insert = @ + Min(used, wsize - @),
                    !.block_start = e1.strstart + used])))

\* deflate_stored, "fill the window with any remaining input": as much of
\* the input as the window has room for, after a slide when that helps
StoredFill(c) ==
    With(WindowSize(c.e.bits), LAMBDA wsize :
    With(IF BLen(c.in) > 2 * wsize - c.e.strstart /\ c.e.block_start >= wsize
         THEN SlideStored(c.e) ELSE c.e, LAMBDA e1 :
    With(Min(2 * wsize - e1.strstart, BLen(c.in)), LAMBDA have :
        [c EXCEPT !.e = [e1 EXCEPT !.window = BCat(@, BTake(c.in, have)),
                                   !.strstart = @ + have,
                                   !.insert = @ + Min(have, wsize - @),
                                   !.total_in = @ + have],
                  !.in = BDrop(@, have)])))

\* deflate_stored, the end: a stored block from the window goes to pending
\* when enough is there or, when flushing, when it holds all the input
StoredFromWindow(c) ==
    With(Min(PendingBufSize - StoredHeaderLen(c.e), MAX_STORED), LAMBDA have :
    With(c.e.strstart - c.e.block_start, LAMBDA left :
    IF \/ left >= Min(have, WindowSize(c.e.bits))
       \/ left > 0 /\ c.flush # "None" /\ c.in = <<>> /\ left <= have
    THEN With(FlushPending(
                 [StoredBlock(c.e, BTake(BDrop(c.e.window, c.e.block_start),
                                         Min(left, have)))
                  EXCEPT !.block_start = @ + Min(left, have)], c.v), LAMBDA p :
            [c EXCEPT !.e = p.e, !.v = p.v])
    ELSE c))

\* deflate at level 0, after the pending output of earlier calls is out:
\* deflate_stored, then for a flush with nothing left the empty stored block
DeflateStored(e, input, v, flush) ==
    With(StoredDirect([e |-> e, in |-> input, v |-> v, flush |-> flush]), LAMBDA a :
    With([a EXCEPT !.e = StoredHistory(@, BTake(input, BLen(input) - BLen(a.in)))],
         LAMBDA b :
    With(IF flush # "None" /\ b.in = <<>> /\ b.e.strstart = b.e.block_start
         THEN With(FlushPending(StoredBlock(b.e, <<>>), b.v), LAMBDA p :
                 [b EXCEPT !.e = p.e, !.v = p.v])
         ELSE StoredFromWindow(StoredFill(b)), LAMBDA p :
    [status |-> "Ok",
     e |-> [p.e EXCEPT !.last_flush = IF Spare(p.v) = 0 THEN "Reset" ELSE flush],
     v |-> p.v, in |-> p.in])))

\* the exclusive or of two numbers below 8
Xor3(a, b) ==
    ((a + b) % 2) + 2 * (((a \div 2) + (b \div 2)) % 2) + 4 * (((a \div 4) + (b \div 4)) % 2)

\* UPDATE_HASH over the three bytes of a string: 15 bits, each byte five
\* bits higher than the next
Hash3(b0, b1, b2) ==
    (b2 % 32) + 32 * Xor3(b2 \div 32, b1 % 8) + 256 * ((b1 \div 8) % 4)
    + 1024 * Xor3(b1 \div 32, b0 % 8) + 8192 * ((b0 \div 8) % 4)

\* the hash of the string at place q of the window
HashAt(window, q) ==
    With(BTake(BDrop(window, q), MIN_MATCH), LAMBDA s :
        Hash3(ByteAt(s, 1), ByteAt(s, 2), ByteAt(s, 3)))

Lookahead(e) == BLen(e.window) - e.strstart
MaxDist(e) == WindowSize(e.bits) - MIN_LOOKAHEAD

\* INSERT_STRING: the places lo .. hi enter the hash table
InsertStrings(ins, lo, hi) ==
    IF hi < lo THEN ins
    ELSE IF ins # <<>> /\ ins[Len(ins)][2] = lo - 1
    THEN [ins EXCEPT ![Len(ins)] = <<@[1], hi>>]
    ELSE Append(ins, <<lo, hi>>)

Inserted(ins, q) == \E i \in 1..Len(ins) : ins[i][1] <= q /\ q <= ins[i][2]

\* the last place in lo .. hi that was entered; 0 when there is none
LastInserted(ins, lo, hi) ==
    With({Min(ins[j][2], hi) :
             j \in {k \in 1..Len(ins) : Max(ins[k][1], lo) <= Min(ins[k][2], hi)}}, LAMBDA S :
        IF S = {} THEN 0 ELSE CHOOSE q \in S : \A r \in S : r <= q)

\* the last place in the run i of seg that was entered with the hash h, the
\* run starting at the place base; 0 when there is none.  The places of a
\* run but its last two hash the same three bytes
RunCandidate(ins, seg, h, i, base) ==
    With(SubSeq(seg, i, Min(Len(seg), i + 2)), LAMBDA sub :
    With({q \in Max(base, base + seg[i].n - 2)..(base + seg[i].n - 1) :
             /\ q - base + MIN_MATCH <= BLen(sub)
             /\ Inserted(ins, q)
             /\ HashAt(sub, q - base) = h}, LAMBDA S :
        IF S # {} THEN CHOOSE q \in S : \A r \in S : r <= q
        ELSE IF seg[i].n >= MIN_MATCH /\ Hash3(seg[i].b, seg[i].b, seg[i].b) = h
        THEN LastInserted(ins, base, base + seg[i].n - MIN_MATCH)
        ELSE 0))

\* the same for the runs i .. j of seg, the later runs first
RECURSIVE NearestRuns(_, _, _, _, _, _)
NearestRuns(ins, seg, h, i, j, base) ==
    IF i > j THEN 0
    ELSE IF i = j THEN RunCandidate(ins, seg, h, i, base)
    ELSE With(NearestRuns(ins, seg, h, (i + j) \div 2 + 1, j,
                          base + RunSum(seg, i, (i + j) \div 2)), LAMBDA q :
         IF q # 0 THEN q ELSE NearestRuns(ins, seg, h, i, (i + j) \div 2, base))

\* head[] and prev[]: the last place in lowest .. below - 1 that was
\* entered with the hash h; 0 (NIL) when there is none
NearestBelow(c, h, below, lowest) ==
    IF below <= lowest THEN 0
    ELSE With(BTake(BDrop(c.e.window, lowest), below - lowest + MIN_MATCH - 1), LAMBDA seg :
         NearestRuns(c.e.ins, seg, h, 1, Len(seg), lowest))

\* the number of equal bytes at the start of two byte strings
RECURSIVE BCommon(_, _)
BCommon(x, y) ==
    IF x = <<>> \/ y = <<>> THEN 0
    ELSE IF x[1].b # y[1].b THEN 0
    ELSE With(Min(x[1].n, y[1].n), LAMBDA m : m + BCommon(BDrop(x, m), BDrop(y, m)))

\* one turn of longest_match's loop over the chain of earlier strings with
\* the same hash: the longer match wins, one of nice length ends the search
\* (m: [cur, len, start, chain, done])
MatchStep(c, scan, nice, limit, m) ==
    With(BCommon(scan, BDrop(c.e.window, m.cur)), LAMBDA len :
    With(IF len > m.len THEN [m EXCEPT !.len = len, !.start = m.cur] ELSE m, LAMBDA m1 :
    IF len > m.len /\ len >= nice THEN [m1 EXCEPT !.done = TRUE]
    ELSE With(NearestBelow(c, HashAt(c.e.window, c.e.strstart), m.cur, limit + 1), LAMBDA next :
         IF next = 0 \/ m.chain = 1 THEN [m1 EXCEPT !.done = TRUE]
         ELSE [m1 EXCEPT !.cur = next, !.chain = @ - 1])))

\* n turns of the loop, fewer when it is left
RECURSIVE MatchChain(_, _, _, _, _, _)
MatchChain(c, scan, nice, limit, m, n) ==
    IF m.done THEN m
    ELSE IF n = 1 THEN MatchStep(c, scan, nice, limit, m)
    ELSE MatchChain(c, scan, nice, limit,
                    MatchChain(c, scan, nice, limit, m, n \div 2), n - n \div 2)

\* longest_match from the chain head cur_match, prev_length being the
\* length to beat; no string matches beyond the lookahead, so the walk
\* along the chain changes nothing when prev_length is that long
LongestMatch(c, cur_match, prev_length) ==
    With(Config(c.e.level), LAMBDA cfg :
    With(Min(Lookahead(c.e), MAX_MATCH), LAMBDA most :
    With(IF prev_length >= cfg.good THEN cfg.chain \div 4 ELSE cfg.chain, LAMBDA chain :
    With(IF prev_length >= most
         THEN [len |-> prev_length, start |-> c.e.match_start]
         ELSE
         MatchChain(c, BTake(BDrop(c.e.window, c.e.strstart), most),
                    Min(cfg.nice, Lookahead(c.e)),
                    IF c.e.strstart > MaxDist(c.e) THEN c.e.strstart - MaxDist(c.e) ELSE 0,
                    [cur |-> cur_match, len |-> prev_length, start |-> c.e.match_start,
                     chain |-> chain, done |-> FALSE], chain),
         LAMBDA m :
        [len |-> Min(m.len, Lookahead(c.e)), start |-> m.start]))))

\* fill_window's entering of the strings that waited for their third byte
InsertWaiting(e) ==
    IF Lookahead(e) + e.insert < MIN_MATCH THEN e
    ELSE With(Min(e.insert, Lookahead(e) + e.insert - (MIN_MATCH - 1)), LAMBDA k :
         [e EXCEPT !.ins = InsertStrings(@, e.strstart - e.insert,
                                         e.strstart - e.insert + k - 1),
                   !.insert = @ - k])

\* fill_window's slide of the upper half of the window to the lower half
SlideWindow(e) ==
    With(WindowSize(e.bits), LAMBDA wsize :
        [e EXCEPT !.window = BDrop(@, wsize), !.strstart = @ - wsize,
                  !.match_start = @ - wsize, !.block_start = @ - wsize,
                  !.insert = Min(@, e.strstart - wsize),
                  !.ins = With(SelectSeq(@, LAMBDA iv : iv[2] - wsize >= 1), LAMBDA s :
                              [i \in 1..Len(s) |-> <<Max(1, s[i][1] - wsize),
                                                     s[i][2] - wsize>>])])

\* fill_window: input is read into the window until the lookahead is
\* MIN_LOOKAHEAD or the input is used up
RECURSIVE FillWindow(_)
FillWindow(c) ==
    With(IF c.e.strstart >= WindowSize(c.e.bits) + MaxDist(c.e)
         THEN SlideWindow(c.e) ELSE c.e, LAMBDA e0 :
    IF c.in = <<>> THEN [c EXCEPT !.e = e0]
    ELSE
    With(Min(BLen(c.in), 2 * WindowSize(e0.bits) - BLen(e0.window)), LAMBDA n :
    With(InsertWaiting([e0 EXCEPT !.window = BCat(@, BTake(c.in, n)),
                                  !.total_in = @ + n]), LAMBDA e1 :
    With([c EXCEPT !.e = e1, !.in = BDrop(@, n)], LAMBDA c1 :
        IF Lookahead(e1) < MIN_LOOKAHEAD /\ c1.in # <<>> THEN FillWindow(c1)
        ELSE c1))))

\* _tr_flush_block and flush_pending (FLUSH_BLOCK_ONLY): the block of the
\* gathered symbols is written
FlushBlock(c) ==
    With(FlushBlockBits(c.e.syms, c.e.strstart - c.e.block_start, c.e.block_start >= 0),
         LAMBDA b :
    With(FlushPending(
            [(IF b.type = "Stored"
              THEN StoredBlock(c.e, BTake(BDrop(c.e.window, c.e.block_start),
                                          c.e.strstart - c.e.block_start))
              ELSE SendBits(c.e, b.bits, FALSE))
             EXCEPT !.block_start = c.e.strstart, !.syms = <<>>], c.v), LAMBDA p :
        [c EXCEPT !.e = p.e, !.v = p.v]))

\* _tr_tally: the symbol t joins the block; st "full": the symbol buffer
\* is full and FLUSH_BLOCK follows
Tally(c, t) ==
    [c EXCEPT !.e.syms = Append(@, t),
              !.st = IF Len(c.e.syms) + 1 = LitBufSize - 1 THEN "full" ELSE "Go"]

\* the chain head for the string at strstart: hash_head of INSERT_STRING
HashHead(c) ==
    IF Lookahead(c.e) < MIN_MATCH THEN 0
    ELSE NearestBelow(c, HashAt(c.e.window, c.e.strstart), c.e.strstart,
                      Max(1, c.e.strstart - MaxDist(c.e)))

\* INSERT_STRING for the string at strstart
InsertString(c) ==
    IF Lookahead(c.e) >= MIN_MATCH
    THEN [c EXCEPT !.e.ins = InsertStrings(@, c.e.strstart, c.e.strstart)] ELSE c

\* deflate_fast's match at strstart
FastMatch(c, hash_head) ==
    IF hash_head # 0 /\ c.e.strstart - hash_head <= MaxDist(c.e)
    THEN LongestMatch(InsertString(c), hash_head, MIN_MATCH - 1)
    ELSE [len |-> c.e.match_length, start |-> c.e.match_start]

\* deflate_fast's symbol for the match m at strstart, a literal when the
\* match is too short
FastSymbol(c, m) ==
    IF m.len >= MIN_MATCH
    THEN Tally([InsertString(c) EXCEPT
                  !.e.ins = IF m.len <= Config(c.e.level).lazy
                               /\ Lookahead(c.e) - m.len >= MIN_MATCH
                            THEN InsertStrings(@, c.e.strstart + 1,
                                               c.e.strstart + m.len - 1) ELSE @,
                  !.e.strstart = @ + m.len,
                  !.e.match_length = 0, !.e.match_start = m.start],
               <<c.e.strstart - m.start, m.len>>)
    ELSE Tally([InsertString(c) EXCEPT !.e.strstart = @ + 1, !.e.match_length = m.len,
                                       !.e.match_start = m.start],
               <<0, ByteAt(c.e.window, c.e.strstart + 1)>>)

\* one turn of deflate_fast's loop; st "finish": the input is used up and
\* a flush is asked for
DeflateFastStep(c0) ==
    With(IF Lookahead(c0.e) < MIN_LOOKAHEAD THEN FillWindow(c0) ELSE c0, LAMBDA c :
    IF Lookahead(c.e) < MIN_LOOKAHEAD /\ c.flush = "None" THEN [c EXCEPT !.st = "need_more"]
    ELSE IF Lookahead(c.e) = 0 THEN [c EXCEPT !.st = "finish"]
    ELSE FastSymbol(c, FastMatch(c, HashHead(c))))

\* deflate_slow's match at strstart, when the match at the string before is
\* shorter than max_lazy
SlowMatch(c, hash_head) ==
    IF hash_head # 0 /\ c.e.match_length < Config(c.e.level).lazy
       /\ c.e.strstart - hash_head <= MaxDist(c.e)
    THEN With(LongestMatch(InsertString(c), hash_head, c.e.match_length), LAMBDA f :
             IF f.len = MIN_MATCH /\ c.e.strstart - f.start > TOO_FAR
             THEN [len |-> MIN_MATCH - 1, start |-> f.start] ELSE f)
    ELSE [len |-> MIN_MATCH - 1, start |-> c.e.match_start]

\* deflate_slow's symbol: the match of the string before (prev_length,
\* prev_match are match_length, match_start of c) when the match m at
\* strstart is not longer, else the byte before as a literal when it waits
\* (st "full_lit": FLUSH_BLOCK_ONLY follows before strstart moves on)
SlowSymbol(c, m) ==
    IF c.e.match_length >= MIN_MATCH /\ m.len <= c.e.match_length
    THEN Tally([InsertString(c) EXCEPT
                  !.e.ins = InsertStrings(@, c.e.strstart + 1,
                                          Min(c.e.strstart + c.e.match_length - 2,
                                              c.e.strstart + Lookahead(c.e) - MIN_MATCH)),
                  !.e.strstart = @ + c.e.match_length - 1,
                  !.e.match_available = FALSE,
                  !.e.match_length = MIN_MATCH - 1, !.e.match_start = m.start],
               <<c.e.strstart - 1 - c.e.match_start, c.e.match_length>>)
    ELSE IF c.e.match_available
    THEN IF Len(c.e.syms) + 1 = LitBufSize - 1
         THEN [InsertString(c) EXCEPT
                  !.e.match_length = m.len, !.e.match_start = m.start,
                  !.e.syms = Append(@, <<0, ByteAt(c.e.window, c.e.strstart)>>),
                  !.st = "full_lit"]
         ELSE [InsertString(c) EXCEPT
                  !.e.match_length = m.len, !.e.match_start = m.start,
                  !.e.syms = Append(@, <<0, ByteAt(c.e.window, c.e.strstart)>>),
                  !.e.strstart = @ + 1]
    ELSE [InsertString(c) EXCEPT !.e.strstart = @ + 1, !.e.match_available = TRUE,
                                 !.e.match_length = m.len, !.e.match_start = m.start]

\* one turn of deflate_slow's loop: the match at strstart is compared with
\* the one found at the string before (lazy evaluation)
DeflateSlowStep(c0) ==
    With(IF Lookahead(c0.e) < MIN_LOOKAHEAD THEN FillWindow(c0) ELSE c0, LAMBDA c :
    IF Lookahead(c.e) < MIN_LOOKAHEAD /\ c.flush = "None" THEN [c EXCEPT !.st = "need_more"]
    ELSE IF Lookahead(c.e) = 0
    THEN IF c.e.match_available
         THEN [c EXCEPT !.st = "finish", !.e.match_available = FALSE,
                        !.e.syms = Append(@, <<0, ByteAt(c.e.window, c.e.strstart)>>)]
         ELSE [c EXCEPT !.st = "finish"]
    ELSE SlowSymbol(c, SlowMatch(c, HashHead(c))))

DeflateStep(c) ==
    IF Config(c.e.level).func = "fast" THEN DeflateFastStep(c) ELSE DeflateSlowStep(c)

\* n turns of the loop, fewer when it is left
RECURSIVE DeflateRun(_, _)
DeflateRun(c, n) ==
    IF c.st # "Go" THEN c
    ELSE IF n = 1 THEN DeflateStep(c)
    ELSE DeflateRun(DeflateRun(c, n \div 2), n - n \div 2)

RECURSIVE DeflateLoop(_)
DeflateLoop(c) == IF c.st # "Go" THEN c ELSE DeflateLoop(DeflateRun(c, 64))

\* a block is written where the loop was left for it: FLUSH_BLOCK in the
\* loop, or the last block when the input is used up (then the strings at
\* the last two places wait for their third byte)
WriteBlock(c) ==
    IF c.st = "finish"
    THEN IF c.e.syms = <<>>
         THEN [c EXCEPT !.e.insert = Min(c.e.strstart, MIN_MATCH - 1), !.st = "block_done"]
         ELSE With(FlushBlock([c EXCEPT !.e.insert = Min(c.e.strstart, MIN_MATCH - 1)]),
                   LAMBDA c1 :
                  [c1 EXCEPT !.st = IF Spare(c1.v) = 0 THEN "need_more" ELSE "block_done"])
    ELSE With(FlushBlock(c), LAMBDA c1 :
             [c1 EXCEPT !.e.strstart = IF c.st = "full_lit" THEN @ + 1 ELSE @,
                        !.st = IF Spare(c1.v) = 0 THEN "need_more" ELSE "Go"])

\* deflate_fast or deflate_slow, to its return
RECURSIVE DeflateFunc(_)
DeflateFunc(c) ==
    IF c.st \in {"need_more", "block_done"} THEN c
    ELSE IF c.st = "Go" THEN DeflateFunc(DeflateLoop(c))
    ELSE DeflateFunc(WriteBlock(c))

\* deflate at level 1 .. 9, after the pending output of earlier calls is
\* out: deflate_fast or deflate_slow, then for a flush the empty stored
\* block that ends on a byte boundary
DeflateBlocks(e, input, v, flush) ==
    With(DeflateFunc([e |-> e, in |-> input, v |-> v, flush |-> flush, st |-> "Go"]), LAMBDA c :
    With(IF c.st = "block_done"
         THEN FlushPending(StoredBlock(c.e, <<>>), c.v)
         ELSE [e |-> c.e, v |-> c.v], LAMBDA p :
    [status |-> "Ok",
     e |-> [p.e EXCEPT !.last_flush = IF Spare(p.v) = 0 THEN "Reset" ELSE flush],
     v |-> p.v, in |-> c.in]))

\* Compress::compress_vec(input, v, flush): [status, e, v, in]; in: the
\* input that was not consumed
CompressVec(e, input, v, flush) ==
    IF Spare(v) = 0 THEN [status |-> "BufError", e |-> e, v |-> v, in |-> input]
    ELSE IF e.pending # <<>> /\ BLen(e.pending) >= Spare(v)
    THEN [status |-> "Ok",
          e |-> [FlushPending(e, v).e EXCEPT !.last_flush = "Reset"],
          v |-> FlushPending(e, v).v, in |-> input]
    ELSE IF e.pending = <<>> /\ input = <<>> /\ Rank(flush) <= Rank(e.last_flush)
    THEN [status |-> "BufError", e |-> [e EXCEPT !.last_flush = flush], v |-> v,
          in |-> input]
    ELSE IF input = <<>> /\ flush = "None" /\ Lookahead(e) = 0
    THEN [status |-> "Ok", e |-> [FlushPending(e, v).e EXCEPT !.last_flush = flush],
          v |-> FlushPending(e, v).v, in |-> input]
    ELSE IF e.level = 0
    THEN DeflateStored(FlushPending(e, v).e, input, FlushPending(e, v).v, flush)
    ELSE DeflateBlocks(FlushPending(e, v).e, input, FlushPending(e, v).v, flush)

(****************************** Deflate ************************************)
\* Deflate::new
New(mode) ==
    [mode |-> mode,
     enabled |-> FALSE,
     buffer |-> VecNew,
     params |-> IF mode = "Server" THEN <<>>
                ELSE <<ParamNew(SERVER_NO_CONTEXT_TAKEOVER),
                       ParamNew(CLIENT_NO_CONTEXT_TAKEOVER),
                       ParamNew(CLIENT_MAX_WINDOW_BITS)>>,
     zlib_compression_level |-> 1,
     our_max_window_bits |-> 15,
     their_max_window_bits |-> 15,
     await_last_fragment |-> FALSE,
     no_our_context_takeover |-> FALSE,
     no_their_context_takeover |-> FALSE,
     max_buffer_size |-> DEFAULT_DECOMPRESS_SIZE,
     grow_buffer_size |-> DEFAULT_GROWTH,
     encoder |-> CompressNew(1, 15),
     decoder |-> DecompressNew(15)]

\* the assertions of set_max_server_window_bits / set_max_client_window_bits
WindowBitsAsserts(d, max) == d.mode = "Client" /\ max > 8 /\ max <= 15

\* Deflate::set_max_server_window_bits
set_max_server_window_bits(d, max) ==
    [d EXCEPT !.their_max_window_bits = max,
              !.params = Append(@, ParamSetValue(ParamNew(SERVER_MAX_WINDOW_BITS),
                                                 Some(U8ToString(max))))]

\* Deflate::set_max_client_window_bits
set_max_client_window_bits(d, max) ==
    LET found == {i \in 1..Len(d.params) : d.params[i].name = CLIENT_MAX_WINDOW_BITS}
        first == CHOOSE i \in found : \A j \in found : i <= j
    IN  [d EXCEPT !.our_max_window_bits = max,
                  !.params =
                      IF found # {}
                      THEN [@ EXCEPT ![first] = ParamSetValue(@, Some(U8ToString(max)))]
                      ELSE Append(@, ParamSetValue(ParamNew(CLIENT_MAX_WINDOW_BITS),
                                                   Some(U8ToString(max))))]

\* Deflate::set_max_buffer_size
set_max_buffer_size(d, size) == [d EXCEPT !.max_buffer_size = size]

\* Deflate::set_grow_buffer_size
set_grow_buffer_size(d, size) == [d EXCEPT !.grow_buffer_size = size]

\* Deflate::set_compression_level, for a level within 0 ..= 9: [result, d]
\* The level is stored before Compress::set_level is called, so it stays
\* stored when that call panics.
set_compression_level(d, level) ==
    With(CompressSetLevel(d.encoder, level), LAMBDA r :
        [result |-> IF r.panic THEN "Panic" ELSE "Ok",
         d |-> [d EXCEPT !.zlib_compression_level = level, !.encoder = r.e]])

\* p.value().map(|s| s.parse::<u8>()) matched against Some(Ok(v))
ParsedValue(p) ==
    IF ~IsSome(p.value) THEN None
    ELSE With(ParseU8(Unwrap(p.value)), LAMBDA r : IF r.ok THEN Some(r.v) ELSE None)

\* a stored window is never below 9, with the bound left out
RaiseTo9_Unclamped(v) == v

\* std::cmp::max(9, v): zlib has no window of 8 bits
RaiseTo9(v) == Max(9, v)

\* Deflate::set_their_max_window_bits: [ok, d]
set_their_max_window_bits(d, p, expected) ==
    With(ParsedValue(p), LAMBDA pv :
        IF ~IsSome(pv) THEN [ok |-> TRUE, d |-> d]
        ELSE IF pv[1] < 8 \/ pv[1] > 15 THEN [ok |-> FALSE, d |-> d]
        ELSE IF IsSome(expected) /\ pv[1] > Unwrap(expected) THEN [ok |-> FALSE, d |-> d]
        ELSE [ok |-> TRUE, d |-> [d EXCEPT !.their_max_window_bits = RaiseTo9(pv[1])]])

\* an unknown parameter that is skipped instead of ending the negotiation
UnknownParam_Skipped(d, p) == [ret |-> FALSE, d |-> d]

\* the arm of an unknown parameter name: configure returns Ok(())
UnknownParam(d, p) == [ret |-> TRUE, d |-> d]

\* one turn of configure's loop in server mode: [ret, d], ret: it returned
ConfigureServerParam(d, p) ==
    CASE p.name = CLIENT_MAX_WINDOW_BITS ->
            With(set_their_max_window_bits(d, p, None), LAMBDA r :
                [ret |-> ~r.ok, d |-> r.d])
      [] p.name = SERVER_MAX_WINDOW_BITS ->
            With(ParsedValue(p), LAMBDA pv :
                IF ~IsSome(pv) THEN [ret |-> TRUE, d |-> d]
                ELSE IF pv[1] < 9 \/ pv[1] > 15 THEN [ret |-> TRUE, d |-> d]
                ELSE [ret |-> FALSE,
                      d |-> [d EXCEPT !.params =
                                 Append(@, ParamSetValue(ParamNew(SERVER_MAX_WINDOW_BITS),
                                                         Some(U8ToString(pv[1])))),
                                      !.our_max_window_bits = pv[1]]])
      [] p.name = CLIENT_NO_CONTEXT_TAKEOVER ->
            [ret |-> FALSE,
             d |-> [d EXCEPT !.params = Append(@, ParamNew(CLIENT_NO_CONTEXT_TAKEOVER)),
                             !.no_their_context_takeover = TRUE]]
      [] p.name = SERVER_NO_CONTEXT_TAKEOVER ->
            [ret |-> FALSE,
             d |-> [d EXCEPT !.params = Append(@, ParamNew(SERVER_NO_CONTEXT_TAKEOVER)),
                             !.no_our_context_takeover = TRUE]]
      [] OTHER -> UnknownParam(d, p)

\* one turn of configure's loop in client mode: [ret, d]
ConfigureClientParam(d, p) ==
    CASE p.name = SERVER_NO_CONTEXT_TAKEOVER ->
            [ret |-> FALSE, d |-> [d EXCEPT !.no_their_context_takeover = TRUE]]
      [] p.name = CLIENT_NO_CONTEXT_TAKEOVER ->
            [ret |-> FALSE, d |-> [d EXCEPT !.no_our_context_takeover = TRUE]]
      [] p.name = SERVER_MAX_WINDOW_BITS ->
            With(set_their_max_window_bits(d, p, Some(d.their_max_window_bits)),
                 LAMBDA r : [ret |-> ~r.ok, d |-> r.d])
      [] p.name = CLIENT_MAX_WINDOW_BITS ->
            With(ParsedValue(p), LAMBDA pv :
                IF ~IsSome(pv) THEN [ret |-> FALSE, d |-> d]
                ELSE IF pv[1] < 8 \/ pv[1] > 15 THEN [ret |-> TRUE, d |-> d]
                ELSE [ret |-> FALSE,
                      d |-> [d EXCEPT !.our_max_window_bits = Min(@, RaiseTo9(pv[1]))]])
      [] OTHER -> UnknownParam(d, p)

\* configure's loop over the received parameters: [ret, d]
RECURSIVE ConfigureLoop(_, _)
ConfigureLoop(d, params) ==
    IF params = <<>> THEN [ret |-> FALSE, d |-> d]
    ELSE With(IF d.mode = "Server" THEN ConfigureServerParam(d, params[1])
              ELSE ConfigureClientParam(d, params[1]),
              LAMBDA r : IF r.ret THEN r ELSE ConfigureLoop(r.d, Tail(params)))

\* the end of configure, reached when the loop did not return
ConfigureEnable(d) ==
    [d EXCEPT !.enabled = TRUE,
              !.encoder = CompressNew(d.zlib_compression_level, d.our_max_window_bits),
              !.decoder = DecompressNew(d.their_max_window_bits)]

\* configure with an abandoned negotiation disabling the extension again
configure_ResetsEnabled(d, params) ==
    With(ConfigureLoop(IF d.mode = "Server" THEN [d EXCEPT !.params = <<>>] ELSE d,
                       params),
         LAMBDA r : [result |-> "Ok", ret |-> r.ret,
                     d |-> IF r.ret THEN [r.d EXCEPT !.enabled = FALSE] ELSE ConfigureEnable(r.d)])

\* configure with an abandoned negotiation returned as an error
configure_ErrOnDecline(d, params) ==
    With(ConfigureLoop(IF d.mode = "Server" THEN [d EXCEPT !.params = <<>>] ELSE d,
                       params),
         LAMBDA r : [result |-> IF r.ret THEN "Err" ELSE "Ok", ret |-> r.ret,
                     d |-> IF r.ret THEN r.d ELSE ConfigureEnable(r.d)])

\* Deflate::configure: [result, ret, d]; ret: a return inside the loop
configure(d, params) ==
    With(ConfigureLoop(IF d.mode = "Server" THEN [d EXCEPT !.params = <<>>] ELSE d,
                       params),
         LAMBDA r : [result |-> "Ok", ret |-> r.ret,
                     d |-> IF r.ret THEN r.d ELSE ConfigureEnable(r.d)])

(************************** frames: Header, data ***************************)
OpCodes == {"Continue", "Text", "Binary", "Ping"}

\* Header: opcode, fin, the reserved bits, the payload length
HeaderOf(opcode, fin, rsv1, rsv2, len) ==
    [opcode |-> opcode, fin |-> fin, rsv1 |-> rsv1, rsv2 |-> rsv2, rsv3 |-> FALSE,
     payload_len |-> len]

\* the loop of decode: [result, dec, buf]
\* A BufError leaves the engine and the buffer as they were, so when the
\* next reserve does not grow the buffer, the loop repeats the same turn
\* for ever: result "Diverges".
RECURSIVE DecodeLoop(_, _, _, _)
DecodeLoop(d, input, dec, buf) ==
    IF BLen(buf.data) >= d.max_buffer_size
    THEN [result |-> "ErrTooLarge", dec |-> dec, buf |-> buf]
    ELSE With(DecompressVec(dec, input, VecReserve(buf, d.grow_buffer_size)), LAMBDA r :
            CASE r.status = "Err" -> [result |-> "ErrCodec", dec |-> r.d, buf |-> r.v]
              [] r.status \in {"Ok", "StreamEnd"} ->
                   [result |-> "Ok", dec |-> r.d, buf |-> r.v]
              [] r.status = "BufError" ->
                   IF r.d = dec /\ r.v = buf
                   THEN [result |-> "Diverges", dec |-> r.d, buf |-> r.v]
                   ELSE DecodeLoop(d, input, r.d, r.v))

\* which arm of decode's match the frame takes
DecodeArm(d, header) ==
    IF header.opcode \in {"Binary", "Text"} /\ header.rsv1
    THEN IF ~header.fin THEN "await" ELSE "first"
    ELSE IF header.opcode = "Continue" /\ header.fin /\ d.await_last_fragment
    THEN "last"
    ELSE "pass"

\* the decompression of decode, lines 298-324: [result, d, data]
DecodeInflate(d, data) ==
    With(VecExtend(data, TRAILER), LAMBDA input :
    With(DecodeLoop(d, input.data,
                    IF d.no_their_context_takeover THEN DecompressReset(d.decoder)
                    ELSE d.decoder,
                    VecClear(d.buffer)), LAMBDA r :
    IF r.result = "Ok"
    THEN [result |-> "Ok", d |-> [d EXCEPT !.decoder = r.dec, !.buffer = input],
          data |-> r.buf]
    ELSE [result |-> r.result, d |-> [d EXCEPT !.decoder = r.dec, !.buffer = r.buf],
          data |-> input]))

\* decode without the return on an empty payload (lines 275-277)
decode_NoEmptyReturn(d, header, data) ==
    With(DecodeArm(d, header), LAMBDA arm :
    IF arm = "await"
    THEN [result |-> "Ok", d |-> [d EXCEPT !.await_last_fragment = TRUE],
          header |-> header, data |-> data]
    ELSE IF arm = "pass"
    THEN [result |-> "Ok", d |-> d, header |-> header, data |-> data]
    ELSE
    With(IF header.rsv1
         THEN DecodeInflate(IF arm = "last" THEN [d EXCEPT !.await_last_fragment = FALSE]
                            ELSE d, data)
         ELSE [result |-> "Ok", d |-> [d EXCEPT !.await_last_fragment = FALSE],
               data |-> data], LAMBDA r :
    IF r.result # "Ok"
    THEN [result |-> r.result, d |-> r.d, header |-> header, data |-> r.data]
    ELSE [result |-> "Ok", d |-> r.d,
          header |-> [header EXCEPT !.rsv1 = FALSE, !.payload_len = BLen(r.data.data)],
          data |-> r.data]))

\* Deflate::decode(header, data): [result, d, header, data]
decode(d, header, data) ==
    IF data.data = <<>>
    THEN [result |-> "Ok", d |-> d, header |-> header, data |-> data]
    ELSE
    With(DecodeArm(d, header), LAMBDA arm :
    IF arm = "await"
    THEN [result |-> "Ok", d |-> [d EXCEPT !.await_last_fragment = TRUE],
          header |-> header, data |-> data]
    ELSE IF arm = "pass"
    THEN [result |-> "Ok", d |-> d, header |-> header, data |-> data]
    ELSE
    With(IF header.rsv1
         THEN DecodeInflate(IF arm = "last" THEN [d EXCEPT !.await_last_fragment = FALSE]
                            ELSE d, data)
         ELSE [result |-> "Ok", d |-> [d EXCEPT !.await_last_fragment = FALSE],
               data |-> data], LAMBDA r :
    IF r.result # "Ok"
    THEN [result |-> r.result, d |-> r.d, header |-> header, data |-> r.data]
    ELSE [result |-> "Ok", d |-> r.d,
          header |-> [header EXCEPT !.rsv1 = FALSE, !.payload_len = BLen(r.data.data)],
          data |-> r.data]))

\* the first loop of encode, "compress all input bytes": [result, enc, buf]
RECURSIVE EncodeInput(_, _, _, _, _, _)
EncodeInput(d, input, start_total_in, total_in, enc, buf) ==
    IF ~(total_in < BLen(input)) THEN [result |-> "Ok", enc |-> enc, buf |-> buf]
    ELSE
    With(enc.total_in - start_total_in, LAMBDA t :
    With(CompressVec(enc, BDrop(input, t), buf, "None"), LAMBDA r :
    With(IF r.status = "BufError" THEN VecReserve(r.v, d.grow_buffer_size) ELSE r.v,
         LAMBDA b1 :
    IF r.status = "BufError" /\ b1 = buf /\ r.e = enc /\ t = total_in
    THEN [result |-> "Diverges", enc |-> enc, buf |-> buf]
    ELSE EncodeInput(d, input, start_total_in, t, r.e, b1))))

\* the second loop of encode, the sync flush: [result, enc, buf]
RECURSIVE EncodeFlush(_, _)
EncodeFlush(enc, buf) ==
    IF BEndsWith(buf.data, TRAILER) THEN [result |-> "Ok", enc |-> enc, buf |-> buf]
    ELSE With(CompressVec(enc, <<>>, VecReserve(buf, 5), "Sync"), LAMBDA r :
            IF r.status = "BufError" /\ r.v = buf /\ r.e = enc
            THEN [result |-> "Diverges", enc |-> enc, buf |-> buf]
            ELSE EncodeFlush(r.e, r.v))

\* Deflate::encode(header, data): [result, d, header, data]
\* data is a Storage: [kind |-> "Owned" or "Borrowed", data, cap]
encode(d, header, data) ==
    IF data.data = <<>> \/ header.opcode \notin {"Binary", "Text"}
    THEN [result |-> "Ok", d |-> d, header |-> header, data |-> data]
    ELSE
    With(IF d.no_our_context_takeover THEN CompressReset(d.encoder) ELSE d.encoder,
         LAMBDA enc0 :
    With(EncodeInput(d, data.data, enc0.total_in, 0, enc0,
                     VecReserve(VecClear(d.buffer), BLen(data.data))), LAMBDA r1 :
    IF r1.result # "Ok"
    THEN [result |-> r1.result, d |-> [d EXCEPT !.encoder = r1.enc, !.buffer = r1.buf],
          header |-> header, data |-> data]
    ELSE
    With(EncodeFlush(r1.enc, r1.buf), LAMBDA r2 :
    IF r2.result # "Ok"
    THEN [result |-> r2.result, d |-> [d EXCEPT !.encoder = r2.enc, !.buffer = r2.buf],
          header |-> header, data |-> data]
    ELSE IF ~BEndsWith(r2.buf.data, TRAILER)
    THEN [result |-> "ErrTrailer", d |-> [d EXCEPT !.encoder = r2.enc, !.buffer = r2.buf],
          header |-> header, data |-> data]
    ELSE
    With(BTruncate(r2.buf.data, BLen(r2.buf.data) - 4), LAMBDA out :
    [result |-> "Ok",
     d |-> [d EXCEPT !.encoder = r2.enc,
                     !.buffer = IF data.kind = "Owned"
                                THEN [data |-> data.data, cap |-> data.cap]
                                ELSE VecNew],
     header |-> [header EXCEPT !.rsv1 = TRUE, !.payload_len = BLen(out)],
     data |-> [kind |-> "Owned", data |-> out, cap |-> r2.buf.cap]]))))

(****************************** inputs *************************************)
MsgBytes == {1, 2}

RECURSIVE MsgsOfLen(_)
MsgsOfLen(n) ==
    IF n = 0 THEN {<<>>}
    ELSE {BCat(<<Run(b, 1)>>, m) : b \in MsgBytes, m \in MsgsOfLen(n - 1)}

ShortMsgs == UNION {MsgsOfLen(n) : n \in 1..MaxShort}

\* one byte more than the default growth, one byte more than SmallSize
LongMsg == <<Run(1, DEFAULT_GROWTH + 1)>>
MediumMsg == <<Run(2, SmallSize + 1)>>

\* a message that holds the bytes 00 00 FF FF, DEFAULT_GROWTH bytes before
\* them and a few bytes after them
TrailerMsg == BCat(BCat(<<Run(1, DEFAULT_GROWTH)>>, TRAILER), <<Run(1, 5)>>)

Messages == ShortMsgs \cup {MediumMsg, LongMsg, TrailerMsg}

\* a final Binary frame that carries the payload p; a message in an Owned
\* Storage
BinaryFrame(p, rsv1) == HeaderOf("Binary", TRUE, rsv1, FALSE, BLen(p))
OwnedStorage(m) == [kind |-> "Owned", data |-> m, cap |-> BLen(m)]

\* the payload that encode gives the message m as the first message of a
\* new instance, and as the second of two messages m
Deflated(m) == encode(New("Client"), BinaryFrame(m, FALSE), OwnedStorage(m)).data.data
DeflatedAgain(m) ==
    encode(encode(New("Client"), BinaryFrame(m, FALSE), OwnedStorage(m)).d,
           BinaryFrame(m, FALSE), OwnedStorage(m)).data.data

\* payloads of received frames: empty, plain bytes, compressed streams (the
\* last one refers to the message before it)
Streams == {Deflated(m) : m \in Messages} \cup {DeflatedAgain(MediumMsg)}
Payloads == {<<>>} \cup MsgsOfLen(1) \cup Streams

\* the long messages and their streams come in one kind of frame only: a
\* final Binary frame without other reserved bits, an exact Vec, Owned
IsLong(p) == BLen(p) > SmallSize + 1
PlainFrame(h, rsv1) == h = BinaryFrame(<<>>, rsv1)

\* encode is given messages of two bytes and more in final Text and Binary
\* frames without reserved bits only
DataFrame(h) == h.opcode \in {"Text", "Binary"} /\ h.fin /\ ~h.rsv1 /\ ~h.rsv2

\* payloads of the frames of a sequence, messages a pair exchanges
StreamPayloads == {<<>>, Deflated(<<Run(1, 1)>>)}
SentMsgs == MsgsOfLen(1) \cup {MediumMsg, LongMsg, TrailerMsg}

WindowBitsArgs == {9, 12}
SizeArgs == {0, 1, SmallSize}
LevelArgs == {0, 9}

ParamNames == {SERVER_NO_CONTEXT_TAKEOVER, SERVER_MAX_WINDOW_BITS,
               CLIENT_NO_CONTEXT_TAKEOVER, CLIENT_MAX_WINDOW_BITS}
ParamValues == {None, Some(<<"7">>), Some(<<"8">>), Some(<<"1", "2">>),
                Some(<<"0", "1", "2">>),
                Some(<<"1", "6">>), Some(<<"3", "0", "0">>), Some(<<"x">>)}
\* a value only matters to the two window-bits parameters
Params == {ParamSetValue(ParamNew(n), v) :
               n \in {SERVER_MAX_WINDOW_BITS, CLIENT_MAX_WINDOW_BITS}, v \in ParamValues}
              \cup {ParamNew(n) : n \in ParamNames \cup {"foo"}}

RECURSIVE ParamListsOfLen(_)
ParamListsOfLen(n) ==
    IF n = 0 THEN {<<>>}
    ELSE {<<p>> \o ps : p \in Params, ps \in ParamListsOfLen(n - 1)}

ParamLists == UNION {ParamListsOfLen(n) : n \in 0..MaxParams}

IsKnown(p) == p.name \in ParamNames
HasUnknown(params) == \E i \in 1..Len(params) : ~IsKnown(params[i])

(****************************** actions ************************************)
NoHeader == HeaderOf("None", FALSE, FALSE, FALSE, 0)

NoCall == [op |-> "new", side |-> "None", result |-> "Ok", ret |-> FALSE,
           unknown |-> FALSE, hin |-> NoHeader, din |-> <<>>,
           hout |-> NoHeader, dout |-> <<>>, sent |-> None,
           awaiting |-> FALSE]

Call(op, side, result) == [NoCall EXCEPT !.op = op, !.side = side, !.result = result]

\* both instances as constructed
Fresh == [m \in Mode |-> New(m)]

Init ==
    /\ ext = Fresh
    /\ wire = [m \in Mode |-> <<>>]
    /\ last = NoCall
    /\ env = [cfg |-> [m \in Mode |-> 0], par |-> [m \in Mode |-> 0],
              frm |-> [m \in Mode |-> 0], snt |-> 0,
              hs |-> "none", rx |-> [m \in Mode |-> "idle"],
              halted |-> [m \in Mode |-> FALSE]]

\* a call that never returns or panics ends the use of its instance
Halts(result) == result \in {"Diverges", "Panic"}
Usable(s) == ~env.halted[s]

\* s is the only instance that has been used
Alone(s) ==
    /\ env.hs = "none"
    /\ env.cfg[Peer(s)] = 0 /\ env.frm[Peer(s)] = 0
    /\ ext[Peer(s)] = Fresh[Peer(s)]

\* the offer is set up on an instance before it negotiates
SetMaxServerWindowBits(s, max) ==
    /\ Usable(s)
    /\ Alone(s) /\ env.cfg[s] = 0
    /\ WindowBitsAsserts(ext[s], max)
    /\ Len(ext[s].params) < MaxOffer
    /\ ext' = [ext EXCEPT ![s] = set_max_server_window_bits(@, max)]
    /\ last' = Call("set_max_server_window_bits", s, "Ok")
    /\ UNCHANGED <<wire, env>>

SetMaxClientWindowBits(s, max) ==
    /\ Usable(s)
    /\ Alone(s) /\ env.cfg[s] = 0
    /\ WindowBitsAsserts(ext[s], max)
    /\ ext' = [ext EXCEPT ![s] = set_max_client_window_bits(@, max)]
    /\ last' = Call("set_max_client_window_bits", s, "Ok")
    /\ UNCHANGED <<wire, env>>

\* the buffer sizes and the level are set up before the first frame, each
\* at most once and in this order: the maximum, the growth, the level
SetMaxBufferSize(s, size) ==
    /\ Usable(s)
    /\ Alone(s) /\ env.frm[s] = 0
    /\ last.op = "new"
    /\ ext' = [ext EXCEPT ![s] = set_max_buffer_size(@, size)]
    /\ last' = Call("set_max_buffer_size", s, "Ok")
    /\ UNCHANGED <<wire, env>>

SetGrowBufferSize(s, size) ==
    /\ Usable(s)
    /\ Alone(s) /\ env.frm[s] = 0
    /\ last.op \in {"new", "set_max_buffer_size"}
    /\ ext' = [ext EXCEPT ![s] = set_grow_buffer_size(@, size)]
    /\ last' = Call("set_grow_buffer_size", s, "Ok")
    /\ UNCHANGED <<wire, env>>

\* set_compression_level before the handshake: before the first frame or
\* after an encode call
SetCompressionLevel(s, level) ==
    /\ Usable(s)
    /\ Alone(s)
    /\ \/ env.frm[s] = 0 /\ last.op \in {"new", "set_max_buffer_size", "set_grow_buffer_size"}
       \/ last.op = "encode" /\ last.side = s
    /\ \E r \in {set_compression_level(ext[s], level)} :
          /\ ext' = [ext EXCEPT ![s] = r.d]
          /\ last' = Call("set_compression_level", s, r.result)
          /\ env' = [env EXCEPT !.halted[s] = Halts(r.result)]
    /\ UNCHANGED wire

\* a configure call with the parameters params, in handshake phase hs
ConfigureCall(s, params, hs) ==
    /\ Usable(s)
    /\ \E r \in {configure(ext[s], params)} :
          /\ ext' = [ext EXCEPT ![s] = r.d]
          /\ last' = [Call("configure", s, r.result) EXCEPT
                          !.ret = r.ret, !.unknown = HasUnknown(params)]
    /\ env' = [env EXCEPT !.cfg[s] = @ + 1, !.par[s] = @ + Len(params), !.hs = hs]
    /\ UNCHANGED wire

\* configure with any received parameters; an instance is given at most
\* MaxConfigure such calls and MaxParams parameters in all
Configure(s) ==
    /\ Alone(s)
    /\ env.cfg[s] < MaxConfigure
    /\ \E params \in ParamLists :
          /\ env.par[s] + Len(params) <= MaxParams
          /\ ConfigureCall(s, params, env.hs)

\* the server configures with the offer of the client's request
HandshakeRequest ==
    /\ env.hs = "none"
    /\ env.cfg["Client"] = 0 /\ env.cfg["Server"] = 0
    /\ ConfigureCall("Server", ext["Client"].params, "requested")

\* the client configures with the parameters of the server's response
HandshakeResponse ==
    /\ env.hs = "requested"
    /\ ext["Server"].enabled
    /\ ConfigureCall("Client", ext["Server"].params, "done")

Headers == {HeaderOf(o, f, r1, r2, 0) : o \in OpCodes, f \in BOOLEAN,
                                        r1 \in BOOLEAN, r2 \in BOOLEAN}

FrameOf(header, payload) == [header EXCEPT !.payload_len = BLen(payload)]

\* the spare capacity a caller's Vec is given
Slack == {0, 4}

\* the state of the incoming message after the frame header
RxAfter(rx, header) ==
    IF header.opcode \in {"Text", "Binary"}
    THEN IF header.fin THEN "idle" ELSE IF header.rsv1 THEN "compressed" ELSE "plain"
    ELSE IF header.opcode = "Continue" /\ header.fin THEN "idle"
    ELSE rx

\* header continues the incoming message well-formedly: a data frame opens
\* a message, Continuation frames (reserved bit clear) follow a non-final
\* frame, control frames are final and may come at any time
WellFormed(rx, header) ==
    CASE header.opcode \in {"Text", "Binary"} -> rx = "idle"
      [] header.opcode = "Continue" -> rx # "idle" /\ ~header.rsv1
      [] OTHER -> header.fin /\ ~header.rsv1

\* a decode call on the frame (header, payload) held in a Vec of capacity cap
DecodeCall(s, header, payload, cap, sent) ==
    /\ Usable(s)
    /\ \E r \in {decode(ext[s], header, VecOf(payload, cap))} :
          /\ ext' = [ext EXCEPT ![s] = r.d]
          /\ last' = [Call("decode", s, r.result) EXCEPT
                          !.hin = header, !.din = payload,
                          !.awaiting = ext[s].await_last_fragment,
                          !.hout = r.header, !.dout = r.data.data, !.sent = sent]
          /\ env' = [env EXCEPT !.frm[s] = @ + 1, !.rx[s] = RxAfter(@, header),
                                !.halted[s] = Halts(r.result)]

\* decode of any frame
Decode(s) ==
    /\ Alone(s)
    /\ env.frm[s] < MaxFrames
    /\ \E h \in Headers, m \in Payloads, slack \in Slack :
          /\ IsLong(m) => PlainFrame(h, TRUE) /\ slack = 0
          /\ DecodeCall(s, FrameOf(h, m), m, BLen(m) + slack, None)
    /\ UNCHANGED wire

\* decode of the next frame of a well-formed sequence of frames
RecvFrame(s) ==
    /\ Alone(s)
    /\ env.frm[s] < MaxStream
    /\ \E h \in Headers, m \in StreamPayloads :
          /\ WellFormed(env.rx[s], h)
          /\ DecodeCall(s, FrameOf(h, m), m, BLen(m), None)
    /\ UNCHANGED wire

\* an encode call on the frame (header, msg) held in a Storage of the kind
\* kind; sends: the frame goes to the peer when encode succeeds
EncodeCall(s, header, msg, kind, sends) ==
    /\ Usable(s)
    /\ \E r \in {encode(ext[s], header, [kind |-> kind, data |-> msg, cap |-> BLen(msg)])} :
          /\ ext' = [ext EXCEPT ![s] = r.d]
          /\ last' = [Call("encode", s, r.result) EXCEPT
                          !.hin = header, !.din = msg,
                          !.hout = r.header, !.dout = r.data.data,
                          !.sent = IF sends THEN Some(msg) ELSE None]
          /\ env' = [env EXCEPT !.frm[s] = @ + 1, !.snt = IF sends THEN @ + 1 ELSE @,
                                !.halted[s] = Halts(r.result)]
          /\ wire' = IF sends /\ r.result = "Ok"
                     THEN [wire EXCEPT ![s] = Append(@, [header |-> r.header,
                                                         payload |-> r.data.data,
                                                         sent |-> msg])]
                     ELSE wire

\* encode of any frame; kind: the Storage is Owned or borrowed
Encode(s) ==
    /\ Alone(s)
    /\ env.frm[s] < MaxFrames
    /\ \E h \in Headers, m \in {<<>>} \cup Messages, kind \in {"Owned", "Borrowed"} :
          /\ BLen(m) > 1 => DataFrame(h)
          /\ IsLong(m) => PlainFrame(h, FALSE) /\ kind = "Owned"
          /\ EncodeCall(s, FrameOf(h, m), m, kind, FALSE)

\* after the handshake: s encodes the message msg as one final frame and
\* sends it to its peer
Send(s) ==
    /\ env.hs = "done"
    /\ ext["Client"].enabled /\ ext["Server"].enabled
    /\ env.snt < MaxSend
    /\ Len(wire[s]) < MaxWire
    /\ \E opcode \in {"Text", "Binary"}, msg \in SentMsgs, kind \in {"Owned", "Borrowed"} :
          /\ BLen(msg) > 1 => opcode = "Binary" /\ kind = "Owned"
          /\ EncodeCall(s, HeaderOf(opcode, TRUE, FALSE, FALSE, BLen(msg)), msg, kind, TRUE)

\* s receives the next frame its peer sent and decodes it
Recv(s) ==
    /\ wire[Peer(s)] # <<>>
    /\ DecodeCall(s, Head(wire[Peer(s)]).header, Head(wire[Peer(s)]).payload,
                  BLen(Head(wire[Peer(s)]).payload), Some(Head(wire[Peer(s)]).sent))
    /\ wire' = [wire EXCEPT ![Peer(s)] = Tail(@)]

(*************************** specifications ********************************)
\* negotiation: the window-bits setters, configure, the handshake
NextNegotiate ==
    \/ \E s \in Mode, max \in WindowBitsArgs : SetMaxServerWindowBits(s, max)
    \/ \E s \in Mode, max \in WindowBitsArgs : SetMaxClientWindowBits(s, max)
    \/ \E s \in Mode : Configure(s)
    \/ HandshakeRequest
    \/ HandshakeResponse

SpecNegotiate == Init /\ [][NextNegotiate]_vars

\* frames given to one instance: the buffer and level setters, decode, encode
NextFrames ==
    \/ \E s \in Mode, size \in SizeArgs : SetMaxBufferSize(s, size)
    \/ \E s \in Mode, size \in SizeArgs : SetGrowBufferSize(s, size)
    \/ \E s \in Mode, level \in LevelArgs : SetCompressionLevel(s, level)
    \/ \E s \in Mode : Decode(s)
    \/ \E s \in Mode : Encode(s)

SpecFrames == Init /\ [][NextFrames]_vars

\* a well-formed sequence of frames received by one instance
NextStream == \E s \in Mode : RecvFrame(s)

SpecStream == Init /\ [][NextStream]_vars

\* encode of a short message between the frames of a sequence
EncodeNext(s) ==
    /\ Alone(s)
    /\ env.frm[s] < MaxStream
    /\ \E opcode \in {"Text", "Binary"}, m \in MsgsOfLen(1), kind \in {"Owned", "Borrowed"} :
          EncodeCall(s, HeaderOf(opcode, TRUE, FALSE, FALSE, BLen(m)), m, kind, FALSE)

\* a server with its buffer sizes set, receiving a well-formed sequence of
\* frames and sending messages in between
NextDuplex ==
    \/ \E size \in SizeArgs : SetMaxBufferSize("Server", size)
    \/ \E size \in SizeArgs : SetGrowBufferSize("Server", size)
    \/ RecvFrame("Server")
    \/ EncodeNext("Server")

SpecDuplex == Init /\ [][NextDuplex]_vars

\* a negotiated pair exchanging messages
NextPair ==
    \/ HandshakeRequest
    \/ HandshakeResponse
    \/ \E s \in Mode : Send(s)
    \/ \E s \in Mode : Recv(s)
    \/ \E level \in LevelArgs : SetCompressionLevel("Client", level)

SpecPair == Init /\ [][NextPair]_vars

(********************** claims about the negotiation ***********************)
\* the parameter list holds a window-bits parameter whose value is given
\* and is no u8
HasUnparseable(params) ==
    \E i \in 1..Len(params) :
        /\ params[i].name \in {CLIENT_MAX_WINDOW_BITS, SERVER_MAX_WINDOW_BITS}
        /\ IsSome(params[i].value)
        /\ ~ParseU8(Unwrap(params[i].value)).ok

\* the value of a string of digits as an integer of any size
RECURSIVE DecimalValue(_, _)
DecimalValue(s, acc) ==
    IF s = <<>> THEN acc ELSE DecimalValue(Tail(s), acc * 10 + DigitVal(s[1]))

IsDecimal(s) == s # <<>> /\ \A i \in 1..Len(s) : IsDigit(s[i])

\* the integer values of ParamValues
IntegerValues == {v \in ParamValues : IsSome(v) /\ IsDecimal(Unwrap(v))}

WindowBitsInRange(d) ==
    /\ d.our_max_window_bits \in 9..15
    /\ d.their_max_window_bits \in 9..15

\* C4: in either mode, a configure call on an extension that is not yet
\* enabled, with a parameter list that holds an unrecognized name at any
\* position, returns Ok and leaves is_enabled() false.
C4_UnknownParameterAbandons ==
    \A s \in Mode, params \in ParamLists :
        (~ext[s].enabled /\ HasUnknown(params)) =>
            LET r == configure(ext[s], params)
            IN  r.result = "Ok" /\ ~r.d.enabled

\* a first configure call with MaxParams parameters, an unknown one among
\* them, has returned Ok and the extension is disabled
C4_Witness ==
    /\ last.op = "configure" /\ last.unknown /\ last.result = "Ok"
    /\ env.cfg[last.side] = 1 /\ env.par[last.side] = MaxParams
    /\ ~ext[last.side].enabled

\* C5: our_max_window_bits and their_max_window_bits are within 9 ..= 15 in
\* every reachable state, and stay so under every configure call and every
\* window-bits setter call that satisfies its assertions.
C5_WindowBitsWithin9To15 ==
    \A s \in Mode :
        /\ WindowBitsInRange(ext[s])
        /\ \A params \in ParamLists : WindowBitsInRange(configure(ext[s], params).d)
        /\ \A max \in 0..16 :
              WindowBitsAsserts(ext[s], max) =>
                  /\ WindowBitsInRange(set_max_server_window_bits(ext[s], max))
                  /\ WindowBitsInRange(set_max_client_window_bits(ext[s], max))

\* a server has accepted client_max_window_bits=8 and stores 9
C5_Witness ==
    /\ last.op = "configure" /\ last.side = "Server" /\ env.hs = "none"
    /\ ext["Server"].enabled
    /\ ext["Server"].their_max_window_bits = 9

\* C6: a fresh server configured with client_max_window_bits=v alone stays
\* disabled when the integer v is outside 8 ..= 15, and for v within
\* 8 ..= 15 is enabled with their_max_window_bits = max(9, v).
C6_ServerClampsClientWindowBits ==
    \A v \in IntegerValues :
        ext["Server"] = Fresh["Server"] =>
            LET n == DecimalValue(Unwrap(v), 0)
                r == configure(ext["Server"],
                               <<ParamSetValue(ParamNew(CLIENT_MAX_WINDOW_BITS), v)>>)
            IN  IF n \in 8..15
                THEN r.d.enabled /\ r.d.their_max_window_bits = Max(9, n)
                ELSE ~r.d.enabled

\* C7: enabled is false from construction until a configure call consumes
\* all its parameters without abandonment, and once true it stays true under
\* every operation: configure, the setters, encode and decode.
C7_EnabledOnlyRises ==
    \A s \in Mode :
        /\ env.cfg[s] = 0 => ~ext[s].enabled
        /\ \A params \in ParamLists :
              LET r == configure(ext[s], params)
              IN  r.d.enabled <=> (ext[s].enabled \/ ~r.ret)
        /\ \A max \in WindowBitsArgs :
              WindowBitsAsserts(ext[s], max) =>
                  /\ set_max_server_window_bits(ext[s], max).enabled = ext[s].enabled
                  /\ set_max_client_window_bits(ext[s], max).enabled = ext[s].enabled
        /\ \A size \in SizeArgs :
              /\ set_max_buffer_size(ext[s], size).enabled = ext[s].enabled
              /\ set_grow_buffer_size(ext[s], size).enabled = ext[s].enabled
        /\ \A level \in LevelArgs :
              set_compression_level(ext[s], level).d.enabled = ext[s].enabled
        /\ \A h \in Headers, m \in MsgsOfLen(1) \cup {<<>>} :
              /\ decode(ext[s], FrameOf(h, m), VecOf(m, BLen(m))).d.enabled
                     = ext[s].enabled
              /\ encode(ext[s], FrameOf(h, m),
                        [kind |-> "Owned", data |-> m, cap |-> BLen(m)]).d.enabled
                     = ext[s].enabled

\* an enabled extension has been given a second configure call, which
\* abandoned, and is still enabled
C7_Witness ==
    /\ last.op = "configure" /\ last.ret
    /\ env.cfg[last.side] = 2
    /\ ext[last.side].enabled

\* C8: in both modes configure returns Ok for every parameter list, and on
\* an extension that is not yet enabled a declined negotiation shows as
\* is_enabled() staying false, an accepted one as is_enabled() true.
C8_ConfigureNeverFails ==
    \A s \in Mode, params \in ParamLists :
        LET r == configure(ext[s], params)
        IN  /\ r.result = "Ok"
            /\ ~ext[s].enabled => (r.ret <=> ~r.d.enabled)

\* a first configure call declined over a parameter of a known name: it
\* returned Ok and the extension is disabled
C8_Witness ==
    /\ last.op = "configure" /\ last.ret /\ ~last.unknown
    /\ last.result = "Ok"
    /\ env.cfg[last.side] = 1
    /\ ~ext[last.side].enabled

\* C9: on a fresh instance in either mode, a configure call whose list
\* holds client_max_window_bits or server_max_window_bits with a value that
\* is no u8 leaves is_enabled() false.
C9_UnparseableValueDeclines ==
    \A s \in Mode, params \in ParamLists :
        (ext[s] = Fresh[s] /\ HasUnparseable(params)) =>
            ~configure(ext[s], params).d.enabled

(************************* claims about frames *****************************)
\* the frame is a final Text or Binary frame with the first reserved bit set
IsCompressedMessage(h) == h.opcode \in {"Text", "Binary"} /\ h.fin /\ h.rsv1

\* what a decompressor without history makes of the stream x, given room
\* for all of its output
InflateAll(x) == DecompressVec(DecompressNew(15), x, VecOf(<<>>, AmpleRoom))

\* the number of bytes the compressed payload p stands for
InflatedSize(p) == BLen(InflateAll(BCat(p, TRAILER)).v.data)

\* the frames encode hands back as they came
PassesEncode(h, p) == p = <<>> \/ h.opcode \notin {"Text", "Binary"}

\* C1: between a freshly negotiated, enabled client and server, every
\* non-empty message sent as a final Text or Binary frame through encode and
\* then through the peer's decode comes out with the payload sent, the first
\* reserved bit clear and the payload length of the message.
C1_RoundTrip ==
    (last.op = "decode" /\ IsSome(last.sent)) =>
        /\ last.result = "Ok"
        /\ last.dout = Unwrap(last.sent)
        /\ ~last.hout.rsv1
        /\ last.hout.payload_len = BLen(Unwrap(last.sent))

\* C2: decode of a final compressed Text or Binary frame whose payload
\* inflates to more than max_buffer_size bytes returns the error of the
\* buffer limit, and decode never returns Ok with more than max_buffer_size
\* bytes of output, for every max_buffer_size and grow_buffer_size.
C2_BufferLimit ==
    (last.op = "decode" /\ IsCompressedMessage(last.hin) /\ last.din # <<>>) =>
        /\ last.result = "Ok" =>
               BLen(last.dout) <= ext[last.side].max_buffer_size
        /\ InflatedSize(last.din) > ext[last.side].max_buffer_size =>
               last.result = "ErrTooLarge"

\* C3: while enabled is false, decode leaves the payload and the
\* reserved bits of every frame unchanged and encode leaves every frame as
\* it is.
C3_DisabledIsNoOp ==
    (last.op \in {"decode", "encode"} /\ ~ext[last.side].enabled) =>
        /\ last.result = "Ok"
        /\ last.dout = last.din
        /\ last.hout = last.hin

\* C10: after each decode call of a well-formed sequence of frames,
\* await_last_fragment is true exactly when the open message started with a
\* non-final Text or Binary frame with the first reserved bit set and its
\* final Continuation frame has not been decoded yet; payloads may be empty.
C10_AwaitLastFragment ==
    \A s \in Mode : ext[s].await_last_fragment <=> env.rx[s] = "compressed"

\* C12: encode and decode of a frame with an empty payload return Ok and
\* leave the header (opcode, fin, reserved bits, payload length) and the
\* payload as they were, for every opcode and every state of the extension.
C12_EmptyPayloadUnchanged ==
    /\ (last.op \in {"decode", "encode"} /\ last.din = <<>>) =>
           last.result = "Ok" /\ last.hout = last.hin /\ last.dout = <<>>
    /\ \A s \in Mode, h \in Headers :
           /\ With(decode(ext[s], h, VecNew), LAMBDA r :
                  r.result = "Ok" /\ r.header = h /\ r.data.data = <<>>)
           /\ With(encode(ext[s], h, [kind |-> "Borrowed", data |-> <<>>, cap |-> 0]),
                   LAMBDA r : r.result = "Ok" /\ r.header = h /\ r.data.data = <<>>)

\* a final Text frame with the first reserved bit set and no payload has
\* been decoded and came back as it was
C12_Witness ==
    /\ last.op = "decode" /\ last.din = <<>>
    /\ IsCompressedMessage(last.hin)
    /\ last.hout = last.hin

\* the stream x is made of whole blocks, the last one ending at a byte
\* boundary, and stands for the bytes m on a decoder without history
InflatesTo(x, m) ==
    With(InflateAll(x), LAMBDA r :
        /\ r.status = "Ok" /\ r.v.data = m
        /\ r.d.mode = "TYPE" /\ r.d.bits = 0)

\* the compressor holds no input that is not yet in a block and no output
\* that is not yet given out
HoldsNothing(e) ==
    /\ e.pending = <<>> /\ e.bi_valid = 0
    /\ e.strstart = e.block_start /\ Lookahead(e) = 0 /\ e.syms = <<>>

\* C13: whenever encode of a non-empty Text or Binary frame returns Ok, the
\* four bytes it removed were the 00 00 FF FF of a sync flush made after all
\* input was consumed: the compressor holds no input and no output back, and
\* the new payload with 00 00 FF FF appended again is a sequence of whole
\* blocks that inflates to the message.
C13_TrailerExactness ==
    (last.op = "encode" /\ ~PassesEncode(last.hin, last.din) /\ last.result = "Ok") =>
        /\ HoldsNothing(ext[last.side].encoder)
        /\ InflatesTo(BCat(last.dout, TRAILER), last.din)

(********************* claims about context takeover ***********************)
\* C11: with no_our_context_takeover set every encode starts from a
\* compressor without history: its output is the output of a new compressor
\* and, with 00 00 FF FF appended, inflates to the message on a decoder
\* without history; with no_their_context_takeover set every decode that
\* decompresses starts from a decompressor without history.
C11_ContextTakeoverReset ==
    /\ (last.op = "encode" /\ IsSome(last.sent) /\ last.result = "Ok"
            /\ ext[last.side].no_our_context_takeover) =>
           InflatesTo(BCat(last.dout, TRAILER), last.din)
    /\ \A s \in Mode :
          (Usable(s) /\ ext[s].enabled /\ ext[s].no_our_context_takeover) =>
              \A m \in {MediumMsg} :
                  encode(ext[s], BinaryFrame(m, FALSE), OwnedStorage(m)).data.data
                  = encode([ext[s] EXCEPT !.encoder =
                                CompressNew(ext[s].zlib_compression_level,
                                            ext[s].our_max_window_bits)],
                           BinaryFrame(m, FALSE), OwnedStorage(m)).data.data
    /\ \A s \in Mode :
          (Usable(s) /\ ext[s].enabled /\ ext[s].no_their_context_takeover) =>
              \A p \in {Deflated(MediumMsg), DeflatedAgain(MediumMsg)} :
                  With(decode(ext[s], BinaryFrame(p, TRUE), VecOf(p, BLen(p))), LAMBDA r :
                  With(decode([ext[s] EXCEPT !.decoder =
                                   DecompressNew(ext[s].their_max_window_bits)],
                              BinaryFrame(p, TRUE), VecOf(p, BLen(p))), LAMBDA f :
                      r.result = f.result /\ r.data = f.data))

(********************* claims about fragmented messages ********************)
\* C14: while await_last_fragment is set, decode of a final Continue frame
\* with a non-empty payload and the first reserved bit clear returns Ok,
\* replaces the payload with the bytes it inflates to and clears
\* await_last_fragment.
C14_LastFragmentInflated ==
    (last.op = "decode" /\ last.awaiting /\ last.din # <<>>
         /\ last.hin.opcode = "Continue" /\ last.hin.fin /\ ~last.hin.rsv1) =>
        /\ last.result = "Ok"
        /\ ~ext[last.side].await_last_fragment
        /\ InflatesTo(BCat(last.din, TRAILER), last.dout)
        /\ last.hout = [last.hin EXCEPT !.payload_len = BLen(last.dout)]

\* C15: decode of a frame that is neither a final Text or Binary frame with
\* the first reserved bit set nor a final Continue frame met while
\* await_last_fragment is set returns Ok and leaves header and payload as
\* they were; it leaves the extension as it was too, except that a
\* non-final Text or Binary frame with the first reserved bit set sets
\* await_last_fragment and nothing else.
C15_PassThrough ==
    \A s \in Mode, h \in Headers, p \in StreamPayloads \cup MsgsOfLen(1) :
        (/\ Usable(s)
         /\ ~IsCompressedMessage(h)
         /\ ~(h.opcode = "Continue" /\ h.fin /\ ext[s].await_last_fragment)) =>
            With(decode(ext[s], FrameOf(h, p), VecOf(p, BLen(p))), LAMBDA r :
                /\ r.result = "Ok"
                /\ r.header = FrameOf(h, p)
                /\ r.data.data = p
                /\ r.d = IF h.opcode \in {"Text", "Binary"} /\ h.rsv1
                         THEN [ext[s] EXCEPT !.await_last_fragment = TRUE]
                         ELSE ext[s])

(*********************** claims about termination ***************************)
\* C16: every decode call terminates, whatever grow_buffer_size and
\* max_buffer_size were set to (0 included): its loop ends with normal
\* completion, a codec error or the buffer-limit error after finitely many
\* calls of the engine, and never repeats a turn that changes nothing.
C16_DecodeTerminates ==
    last.op = "decode" => last.result # "Diverges"

(********************* claims about the server's response *******************)
IsEchoed(p) == p.name # CLIENT_MAX_WINDOW_BITS

\* the parameters of a request a server answers, in the order received
EchoOf(params) == SelectSeq(params, IsEchoed)

\* the positions of server_max_window_bits in a parameter list
ServerMaxAt(params) == {i \in 1..Len(params) : params[i].name = SERVER_MAX_WINDOW_BITS}

\* our_max_window_bits is the value of the last server_max_window_bits of
\* the response, when there is one
OursIsLastEchoed(d) ==
    ServerMaxAt(d.params) # {} =>
        With(d.params[CHOOSE i \in ServerMaxAt(d.params) :
                          \A j \in ServerMaxAt(d.params) : j <= i], LAMBDA p :
            /\ ParseU8(Unwrap(p.value)).ok
            /\ d.our_max_window_bits = ParseU8(Unwrap(p.value)).v)

\* C17 as stated: after a configure call on a fresh server that ends
\* enabled, params() is exactly the received server_max_window_bits (with
\* the value as received), client_no_context_takeover and
\* server_no_context_takeover parameters in the order received,
\* client_max_window_bits is never among them, and our_max_window_bits is
\* the value of the last server_max_window_bits echoed.
C17_ResponseEchoesRequest ==
    \A params \in ParamLists :
        ext["Server"] = Fresh["Server"] =>
            With(configure(ext["Server"], params), LAMBDA r :
                r.d.enabled =>
                    /\ r.d.params = EchoOf(params)
                    /\ OursIsLastEchoed(r.d))

\* the echo of a request parameter: the same name; a flag without a value;
\* server_max_window_bits with the decimal digits of the same integer,
\* without sign and without leading zeros
IsEchoOf(x, p) ==
    /\ x.name = p.name
    /\ IF p.name = SERVER_MAX_WINDOW_BITS
       THEN /\ IsSome(x.value) /\ IsSome(p.value)
            /\ ParseU8(Unwrap(x.value)).ok /\ ParseU8(Unwrap(p.value)).ok
            /\ ParseU8(Unwrap(x.value)).v = ParseU8(Unwrap(p.value)).v
            /\ IsDecimal(Unwrap(x.value))
            /\ (Len(Unwrap(x.value)) > 1 => Unwrap(x.value)[1] # "0")
       ELSE ~IsSome(x.value)

\* C17, amended: after a configure call on a fresh server that ends
\* enabled, params() holds, in the order received, one parameter for each
\* server_max_window_bits, client_no_context_takeover and
\* server_no_context_takeover of the request and nothing else;
\* server_max_window_bits carries the same integer written in plain decimal
\* digits (not always the string received); client_max_window_bits is never
\* among them; our_max_window_bits is the value of the last
\* server_max_window_bits echoed.
C17_ResponseEchoesIntegers ==
    \A params \in ParamLists :
        ext["Server"] = Fresh["Server"] =>
            With(configure(ext["Server"], params), LAMBDA r :
                r.d.enabled =>
                    /\ Len(r.d.params) = Len(EchoOf(params))
                    /\ \A i \in 1..Len(r.d.params) : IsEchoOf(r.d.params[i], EchoOf(params)[i])
                    /\ OursIsLastEchoed(r.d))

\* a server's first configure call consumed MaxParams parameters and left it
\* enabled, answering server_max_window_bits=12 and a flag
C17_Witness ==
    /\ last.op = "configure" /\ last.side = "Server" /\ ~last.ret
    /\ env.cfg["Server"] = 1 /\ env.par["Server"] = MaxParams /\ env.hs = "none"
    /\ ext["Server"].enabled
    /\ Len(ext["Server"].params) = 2
    /\ ext["Server"].params[1] = ParamSetValue(ParamNew(SERVER_MAX_WINDOW_BITS),
                                               Some(<<"1", "2">>))
    /\ ext["Server"].params[2].name = CLIENT_NO_CONTEXT_TAKEOVER
    /\ ext["Server"].our_max_window_bits = 12

(********************* claims about the client's window *********************)
\* the windows max(9, v) of the client_max_window_bits=v of params whose v
\* is a u8
OfferedWindows(params) ==
    {Max(9, ParseU8(Unwrap(params[i].value)).v) :
        i \in {j \in 1..Len(params) : /\ params[j].name = CLIENT_MAX_WINDOW_BITS
                                      /\ IsSome(params[j].value)
                                      /\ ParseU8(Unwrap(params[j].value)).ok}}

\* the least element of a non-empty set of integers
Least(S) == CHOOSE x \in S : \A y \in S : x <= y

\* C18: a configure call of a client, whatever the response parameters
\* (client_max_window_bits repeated, the call abandoned), never raises
\* our_max_window_bits; a call that is not abandoned leaves the least of the
\* previous value and of max(9, v) over the client_max_window_bits=v it
\* accepted, an abandoned call the previous value or one of those max(9, v).
C18_ClientWindowOnlyShrinks ==
    \A params \in ParamLists :
        With(configure(ext["Client"], params), LAMBDA r :
            /\ r.d.our_max_window_bits <= ext["Client"].our_max_window_bits
            /\ r.d.our_max_window_bits \in
                   {ext["Client"].our_max_window_bits} \cup OfferedWindows(params)
            /\ ~r.ret => r.d.our_max_window_bits =
                   Least({ext["Client"].our_max_window_bits} \cup OfferedWindows(params)))

\* a client that offered client_max_window_bits=12 has been configured and
\* its window was lowered to 9
C18_Witness ==
    /\ last.op = "configure" /\ last.side = "Client" /\ ~last.ret
    /\ ext["Client"].enabled
    /\ \E i \in 1..Len(ext["Client"].params) :
          ext["Client"].params[i] = ParamSetValue(ParamNew(CLIENT_MAX_WINDOW_BITS),
                                                  Some(<<"1", "2">>))
    /\ ext["Client"].our_max_window_bits = 9

(****************** claims about the server's acknowledgement ***************)
HasParam(params, name) == \E i \in 1..Len(params) : params[i].name = name

\* C19: after any sequence of configure calls on a server (one per offer,
\* some abandoned), whenever the server is enabled params() holds
\* client_no_context_takeover exactly if no_their_context_takeover is true
\* and server_no_context_takeover exactly if no_our_context_takeover is
\* true, and after an accepted offer both window sizes are those the offer
\* alone gives a fresh server, whatever earlier offers held.
C19_AcknowledgementMatchesState ==
    /\ ext["Server"].enabled =>
          /\ HasParam(ext["Server"].params, CLIENT_NO_CONTEXT_TAKEOVER)
                 <=> ext["Server"].no_their_context_takeover
          /\ HasParam(ext["Server"].params, SERVER_NO_CONTEXT_TAKEOVER)
                 <=> ext["Server"].no_our_context_takeover
    /\ \A params \in ParamLists :
          With(configure(ext["Server"], params), LAMBDA r :
              ~r.ret =>
                  With(configure(Fresh["Server"], params).d, LAMBDA f :
                      /\ r.d.their_max_window_bits = f.their_max_window_bits
                      /\ r.d.our_max_window_bits = f.our_max_window_bits))

(************************* claims about the handshake ***********************)
\* C20: a fresh client after any window-bits setter calls and a fresh
\* server: once the server has configured with the client's params() and,
\* if that left it enabled, the client has configured with the server's
\* params(), the client is enabled exactly if the server is.
C20_HandshakeAgreement ==
    (env.hs = "done" \/ (env.hs = "requested" /\ ~ext["Server"].enabled)) =>
        (ext["Client"].enabled <=> ext["Server"].enabled)

====
